---- MODULE Spec2Model ----
(***************************************************************************)
(* Maintenance OS: the audit runner (engine.js), the scheduler's jobs,     *)
(* the CLI sweep (index.js), the dashboard's on-demand audit route and     *)
(* the report directory read by the dashboard (dashboard.js).              *)
(*                                                                         *)
(* Node runs one continuation at a time: every action below is the code    *)
(* that runs between two awaits, and the interleavings of the actions are  *)
(* the interleavings of the continuations of overlapping jobs.             *)
(***************************************************************************)
EXTENDS Integers, Sequences, FiniteSets, TLC

VARIABLES
    clock,          \* Date.now(), in ticks
    reports,        \* the report directory: file name -> artifact
    run,            \* the runAudit invocations, one slot per (trigger, target index)
    job,            \* the firing of each trigger: its loop over the targets
    auditHistory,   \* the scheduler's in-memory history array
    backend,        \* which runAudit of engine.js the deployment loads
    emailEnabled,   \* config.email.enabled
    faultsLeft,     \* failures the environment may still inject
    mayFire,        \* the triggers the environment may still fire
    reply,          \* the body of the dashboard's last answer to a read request
    dynamicData,    \* data.json: the clients and targets added through the dashboard
    sessions        \* the dashboard's session store: session id -> user

vars == <<clock, reports, run, job, auditHistory, backend, emailEnabled, faultsLeft, mayFire, reply,
         dynamicData, sessions>>

(***************************************************************************)
(* Bounds of the model.                                                    *)
(***************************************************************************)
MaxClock == 2
MaxFaults == 2          \* failures injected into a firing that runs alone
MaxOverlapFaults == 0   \* failures injected while firings overlap

(***************************************************************************)
(* Configuration (config.js): the first two targets, the audit options.    *)
(***************************************************************************)
ConfigTargets ==
    << [id |-> "complyflow", name |-> "ComplyFlow", clientId |-> "novum_care",
        url |-> "https://comply-flow.vercel.app"],
       [id |-> "novumflow", name |-> "NovumFlow", clientId |-> "novum_care",
        url |-> "https://hr-recruitment-platform.vercel.app/login"] >>

DefaultThreshold == 90

AuditOptions ==
    [ outputFormat |-> "html",
      thresholds |-> [performance |-> 90, accessibility |-> 90, bestPractices |-> 80, seo |-> 90] ]

maxAttempts == 2

\* config.email: alerting is switched off as shipped; the alert kinds are all on
EmailConfig ==
    [ enabled |-> FALSE,
      alerts |-> [onDowntime |-> TRUE, onNewPainPoints |-> TRUE, dailyDigest |-> TRUE] ]

NumTargets == Len(ConfigTargets)

\* loadDynamicData() when data.json does not exist
NoDynamicData == [clients |-> <<>>, targets |-> <<>>]

\* new Map()
NoSessions == <<>>

\* getAllTargets(): the static targets followed by the dynamic overlay.
getAllTargets == ConfigTargets \o dynamicData.targets

Triggers == {"weekly", "monthly", "ondemand", "cli", "uptime"}
FullAuditTriggers == {"weekly", "monthly"}
Slots == Triggers \X (1..NumTargets)

(***************************************************************************)
(* What the environment can answer.                                        *)
(***************************************************************************)
\* the answers to the HEAD request of the uptime probe: a status, or 0 for a
\* network exception
ProbeResponses == {404, 0}

\* the answers to the HEAD request of the scheduler's uptime check
HeadResponses == {200, 404, 503, 0}

\* the category scores Lighthouse reports (already scaled by 100)
LighthouseScores ==
    { [performance |-> 85, accessibility |-> 95, bestPractices |-> 95, seo |-> 95],
      [performance |-> 95, accessibility |-> 90, bestPractices |-> 70, seo |-> 90] }

Undefined == [undefined |-> TRUE]
Null == [null |-> TRUE]

(***************************************************************************)
(* engine.js: checkUptime                                                  *)
(*                                                                         *)
(* error.message is a text: a sequence of characters, where a run of       *)
(* characters that no conversion treats specially is one element.          *)
(***************************************************************************)
\* response.ok is a status in 200..299
ResponseOk(status) == status >= 200 /\ status <= 299

\* a faulty variant of checkUptime, for which only an http-ok answer is UP
checkUptimeOkOnly(response) ==
    IF response = 0
    THEN [status |-> "DOWN", statusCode |-> 500, error |-> <<"fetch failed">>]
    ELSE [status |-> IF ResponseOk(response) THEN "UP" ELSE "DOWN",
          statusCode |-> response,
          latency |-> "ms"]

checkUptime(response) ==
    IF response = 0
    THEN [status |-> "DOWN", statusCode |-> 500, error |-> <<"fetch failed">>]
    ELSE [status |-> IF ResponseOk(response) \/ response < 500 THEN "UP" ELSE "DOWN",
          statusCode |-> response,
          latency |-> "ms"]

(***************************************************************************)
(* engine.js: runAudit, the pure parts                                     *)
(***************************************************************************)
\* options.thresholds?.x || 90: a threshold that is not configured is undefined, and
\* undefined and 0 are both falsy
ThresholdOr(thresholds, x) ==
    IF x \in DOMAIN thresholds /\ thresholds[x] # 0 THEN thresholds[x] ELSE DefaultThreshold

Opportunities(scores, options) ==
    (IF scores.performance < ThresholdOr(options.thresholds, "performance")
        THEN <<"Speed Optimization Service">> ELSE <<>>)
    \o (IF scores.accessibility < ThresholdOr(options.thresholds, "accessibility")
        THEN <<"Accessibility Remediation">> ELSE <<>>)
    \o (IF scores.seo < ThresholdOr(options.thresholds, "seo")
        THEN <<"SEO Audit & Fix">> ELSE <<>>)

ScreenshotName(target, timestamp) == <<target.id, timestamp, "png">>

\* a faulty variant of Stats, which loses the timestamp
StatsUnstamped(target, timestamp, scores, uptime, options) ==
    [ targetId |-> target.id,
      clientId |-> target.clientId,
      timestamp |-> 0,
      scores |-> scores,
      uptime |-> uptime,
      opportunities |-> Opportunities(scores, options),
      screenshot |-> ScreenshotName(target, timestamp) ]

Stats(target, timestamp, scores, uptime, options) ==
    [ targetId |-> target.id,
      clientId |-> target.clientId,
      timestamp |-> timestamp,
      scores |-> scores,
      uptime |-> uptime,
      opportunities |-> Opportunities(scores, options),
      screenshot |-> ScreenshotName(target, timestamp) ]

\* `${target.id}-${timestamp}.${options.outputFormat}`: an option that is not set
\* is interpolated as "undefined"
FileName(target, timestamp, options) ==
    <<target.id, timestamp,
      IF "outputFormat" \in DOMAIN options THEN options.outputFormat ELSE "undefined">>

(***************************************************************************)
(* The text of an artifact: a sequence of tokens.  Lit(c) is the character *)
(* (or run of plain characters) c; Data(v) is the JSON text of the value v *)
(* without its last member and closing brace, which holds no character any *)
(* conversion treats specially.                                            *)
(***************************************************************************)
Lit(c) == [lit |-> c]
Data(v) == [json |-> v]

NewLine == "\n"
LineSeparator == "U+2028"
Quote == "\""
MarkerOpen == "<!-- MAINTENANCE_METADATA:"
MarkerClose == " -->"
ErrorMember == ",\"error\":\""
CloseBrace == "}"

\* JSON.stringify of one character of a string: the quote and the control characters
\* are escaped, U+2028 is written as it is
JsonEscape(c) ==
    IF c = Quote THEN "\\\"" ELSE IF c = NewLine THEN "\\n" ELSE c

\* JSON.parse of one character or escape sequence of a string
JsonUnescape(e) ==
    IF e = "\\\"" THEN Quote ELSE IF e = "\\n" THEN NewLine ELSE e

\* JSON.stringify(stats): uptime.error, when there is one, is written last
Stringify(stats) ==
    IF "error" \in DOMAIN stats.uptime
    THEN LET text == stats.uptime.error
             rest == [stats EXCEPT !.uptime =
                         [k \in DOMAIN stats.uptime \ {"error"} |-> stats.uptime[k]]]
         IN  <<Data(rest), Lit(ErrorMember)>>
             \o [i \in 1..Len(text) |-> Lit(JsonEscape(text[i]))]
             \o <<Lit(Quote), Lit(CloseBrace)>>
    ELSE <<Data(stats), Lit(CloseBrace)>>

SyntaxError == [syntaxError |-> TRUE]

\* JSON.parse(text): the value, or SyntaxError when text is not a JSON text
ParseJson(text) ==
    LET n == Len(text)
    IN  IF n < 2 \/ "json" \notin DOMAIN text[1] \/ text[n] # Lit(CloseBrace)
        THEN SyntaxError
        ELSE IF n = 2 THEN text[1].json
        ELSE IF /\ n >= 4
                /\ text[2] = Lit(ErrorMember)
                /\ text[n - 1] = Lit(Quote)
                /\ \A i \in 3..(n - 2) :
                      /\ "lit" \in DOMAIN text[i]
                      /\ text[i].lit \notin {Quote, NewLine, ErrorMember}
        THEN [text[1].json EXCEPT !.uptime =
                 [k \in DOMAIN @ \cup {"error"} |->
                     IF k = "error"
                     THEN [i \in 1..(n - 4) |-> JsonUnescape(text[i + 2].lit)]
                     ELSE @[k]]]
        ELSE SyntaxError

\* the characters the dot of a regular expression does not match
LineTerminators == {NewLine, LineSeparator}

\* content.match(/<!-- MAINTENANCE_METADATA:(.*) -->/): the first place where the
\* pattern matches, the group taken as long as it can be within the line
Match(content) ==
    LET n == Len(content)
        Ends(i) == {j \in (i + 1)..n :
                       /\ content[j] = Lit(MarkerClose)
                       /\ \A k \in (i + 1)..(j - 1) :
                             content[k] \notin {Lit(t) : t \in LineTerminators}}
        starts == {i \in 1..n : content[i] = Lit(MarkerOpen) /\ Ends(i) # {}}
    IN  IF starts = {} THEN [found |-> FALSE]
        ELSE LET i == CHOOSE a \in starts : \A b \in starts : a <= b
                 j == CHOOSE a \in Ends(i) : \A b \in Ends(i) : a >= b
             IN  [found |-> TRUE, group |-> SubSeq(content, i + 1, j - 1)]

\* runnerResult.report + "\n<!-- MAINTENANCE_METADATA:" + JSON.stringify(stats) + " -->"
Artifact(stats) ==
    <<Lit("report"), Lit(NewLine), Lit(MarkerOpen)>> \o Stringify(stats) \o <<Lit(MarkerClose)>>

\* what a failed writeFileSync may leave behind: a file cut before the marker
PartialArtifact == <<Lit("report")>>

\* a faulty variant of SuccessResult, which stamps the result anew when it returns
SuccessResultRestamped(target, stats) ==
    [ success |-> TRUE,
      target |-> target.name,
      targetId |-> stats.targetId,
      clientId |-> stats.clientId,
      timestamp |-> stats.timestamp + 1,
      scores |-> stats.scores,
      uptime |-> stats.uptime,
      opportunities |-> stats.opportunities,
      screenshot |-> stats.screenshot ]

\* { success: true, target: target.name, ...stats }
SuccessResult(target, stats) ==
    [ success |-> TRUE,
      target |-> target.name,
      targetId |-> stats.targetId,
      clientId |-> stats.clientId,
      timestamp |-> stats.timestamp,
      scores |-> stats.scores,
      uptime |-> stats.uptime,
      opportunities |-> stats.opportunities,
      screenshot |-> stats.screenshot ]

\* a faulty variant of FailureResult, which replaces the message
FailureResultGeneric(target, message) ==
    [success |-> FALSE, target |-> target.name, error |-> "Audit failed"]

\* { success: false, target: target.name, error: error.message }
FailureResult(target, message) ==
    [success |-> FALSE, target |-> target.name, error |-> message]

(***************************************************************************)
(* engine.js: runAudit, the control flow of one invocation                 *)
(*                                                                         *)
(* pc names the await the invocation is suspended at.  pending is the      *)
(* completion the try or catch block has produced and the finally block    *)
(* still has to let through; completion is how the invocation ended.       *)
(***************************************************************************)
NoCompletion == [kind |-> "none"]
Return(value) == [kind |-> "return", value |-> value]
Throw(message) == [kind |-> "throw", error |-> message]

NoTarget == [id |-> "", name |-> "", clientId |-> ""]
NoUptime == [status |-> ""]

IdleRun ==
    [ pc |-> "idle", target |-> NoTarget, attempts |-> 0,
      chrome |-> FALSE, browser |-> FALSE, timestamp |-> 0, uptime |-> NoUptime,
      pending |-> NoCompletion, completion |-> NoCompletion,
      \* history variables of the invocation
      errors |-> <<>>,      \* the message of each failed attempt
      events |-> <<>>,      \* probe, launch, delay, write, in the order they happened
      liveProcs |-> 0,      \* Chrome processes it launched that are still alive
      liveConns |-> 0,      \* browser sessions it connected that are still open
      wrote |-> <<>> ]      \* the stats of every artifact it wrote completely

\* the call runAudit(target, options) up to its first await (line 28, line 147)
StartRun(target) ==
    [IdleRun EXCEPT !.pc = "probe", !.target = target]

\* a faulty variant of BeginAttempt, which probes again in every attempt
BeginAttemptReprobe(r) ==
    IF r.attempts < maxAttempts
    THEN [r EXCEPT !.pc = "launch", !.attempts = @ + 1,
                   !.chrome = FALSE, !.browser = FALSE, !.pending = NoCompletion,
                   !.events = Append(@, "probe")]
    ELSE [r EXCEPT !.pc = "done", !.completion = Return(Undefined)]

\* the while condition and the head of the try block, up to the await of
\* chromeLauncher.launch; falling out of the loop returns undefined
BeginAttempt(r) ==
    IF r.attempts < maxAttempts
    THEN [r EXCEPT !.pc = "launch", !.attempts = @ + 1,
                   !.chrome = FALSE, !.browser = FALSE, !.pending = NoCompletion]
    ELSE [r EXCEPT !.pc = "done", !.completion = Return(Undefined)]

\* a faulty variant of EndIteration, which goes round the loop after a success too
EndIterationAgain(r) ==
    IF r.pending.kind = "return" /\ r.attempts >= maxAttempts
    THEN [r EXCEPT !.pc = "done", !.completion = r.pending]
    ELSE BeginAttempt(r)

\* the end of the finally block: a pending return completes the call, otherwise
\* the loop goes round
EndIteration(r) ==
    IF r.pending.kind = "return"
    THEN [r EXCEPT !.pc = "done", !.completion = r.pending]
    ELSE BeginAttempt(r)

\* line 118: if (chrome) await chrome.kill()
FinallyKill(r) ==
    IF r.chrome THEN [r EXCEPT !.pc = "kill"] ELSE EndIteration(r)

\* line 117: if (browser) await browser.disconnect()
Finally(r) ==
    IF r.browser THEN [r EXCEPT !.pc = "disconnect"] ELSE FinallyKill(r)

\* a faulty variant of Catch, which reports the message of the first attempt
CatchFirstError(r, message) ==
    LET r1 == [r EXCEPT !.errors = Append(@, message)]
    IN  IF r.attempts >= maxAttempts
        THEN Finally([r1 EXCEPT !.pending = Return(FailureResult(r.target, r1.errors[1]))])
        ELSE [r1 EXCEPT !.pc = "delay"]

\* lines 109-115: the catch block, up to the await of the 2 s timer
Catch(r, message) ==
    LET r1 == [r EXCEPT !.errors = Append(@, message)]
    IN  IF r.attempts >= maxAttempts
        THEN Finally([r1 EXCEPT !.pending = Return(FailureResult(r.target, message))])
        ELSE [r1 EXCEPT !.pc = "delay"]

Event(r, e) == [r EXCEPT !.events = Append(@, e)]

\* stats of the hosted backend (lines 203-211): the screenshot path is '' when the
\* screenshot was not saved
HostedStats(target, timestamp, scores, uptime, options, saved) ==
    [ Stats(target, timestamp, scores, uptime, options) EXCEPT
        !.screenshot = IF saved THEN <<target.id, timestamp, "jpg">> ELSE <<>> ]

(***************************************************************************)
(* The environment: injected failures, the clock                           *)
(***************************************************************************)
Fault == faultsLeft > 0 /\ faultsLeft' = faultsLeft - 1
NoFault == faultsLeft' = faultsLeft

Tick ==
    /\ clock < MaxClock
    /\ clock' = clock + 1
    /\ UNCHANGED <<reports, run, job, auditHistory, backend, emailEnabled, faultsLeft, mayFire, reply, dynamicData, sessions>>

(***************************************************************************)
(* engine.js: runAudit (browser backend), one action per await             *)
(***************************************************************************)
\* lines 28-40 and 147-163: checkUptime has answered
RunProbe(s) ==
    /\ run[s].pc = "probe"
    /\ \E response \in ProbeResponses :
         LET r == Event([run[s] EXCEPT !.uptime = checkUptime(response)], "probe")
         IN  run' = [run EXCEPT ![s] =
                 IF backend = "browser"
                 THEN BeginAttempt(r)
                 ELSE [r EXCEPT !.pc = "psi", !.timestamp = clock]]
    /\ UNCHANGED <<clock, reports, job, auditHistory, backend, emailEnabled, faultsLeft, mayFire, reply, dynamicData, sessions>>

\* line 40: chromeLauncher.launch has answered
Launch(s) ==
    /\ run[s].pc = "launch"
    /\ \/ /\ NoFault
          /\ run' = [run EXCEPT ![s] =
                 [Event(@, "launch") EXCEPT !.pc = "connect", !.chrome = TRUE,
                                            !.liveProcs = @ + 1]]
       \/ /\ Fault
          /\ run' = [run EXCEPT ![s] = Catch(Event(@, "launch"), "launch")]
    /\ UNCHANGED <<clock, reports, job, auditHistory, backend, emailEnabled, mayFire, reply, dynamicData, sessions>>

\* line 45: puppeteer.connect has answered
Connect(s) ==
    /\ run[s].pc = "connect"
    /\ \/ /\ NoFault
          /\ run' = [run EXCEPT ![s] =
                 [@ EXCEPT !.pc = "navigate", !.browser = TRUE, !.liveConns = @ + 1]]
       \/ /\ Fault
          /\ run' = [run EXCEPT ![s] = Catch(@, "connect")]
    /\ UNCHANGED <<clock, reports, job, auditHistory, backend, emailEnabled, mayFire, reply, dynamicData, sessions>>

\* lines 49-58: newPage and goto have answered; the timestamp is taken and the
\* screenshot requested
Navigate(s) ==
    /\ run[s].pc = "navigate"
    /\ \/ /\ NoFault
          /\ run' = [run EXCEPT ![s] = [@ EXCEPT !.pc = "screenshot", !.timestamp = clock]]
       \/ /\ Fault
          /\ run' = [run EXCEPT ![s] = Catch(@, "navigation")]
    /\ UNCHANGED <<clock, reports, job, auditHistory, backend, emailEnabled, mayFire, reply, dynamicData, sessions>>

\* lines 58-73: page.screenshot has answered; Lighthouse is started
Screenshot(s) ==
    /\ run[s].pc = "screenshot"
    /\ \/ /\ NoFault
          /\ run' = [run EXCEPT ![s] = [@ EXCEPT !.pc = "lighthouse"]]
       \/ /\ Fault
          /\ run' = [run EXCEPT ![s] = Catch(@, "screenshot")]
    /\ UNCHANGED <<clock, reports, job, auditHistory, backend, emailEnabled, mayFire, reply, dynamicData, sessions>>

\* lines 73-107: lighthouse has answered; the scores are extracted, the artifact is
\* written and the try block returns, all in one continuation
Lighthouse(s) ==
    /\ run[s].pc = "lighthouse"
    \* the screenshot and the audit take time: the clock has moved on
    /\ clock' = IF clock > run[s].timestamp THEN clock ELSE run[s].timestamp + 1
    /\ \/ /\ NoFault
          /\ \E scores \in LighthouseScores :
               LET r == run[s]
                   stats == Stats(r.target, r.timestamp, scores, r.uptime, AuditOptions)
                   file == FileName(r.target, r.timestamp, AuditOptions)
               IN  /\ reports' = [f \in DOMAIN reports \cup {file} |->
                                     IF f = file THEN Artifact(stats) ELSE reports[f]]
                   /\ run' = [run EXCEPT ![s] =
                          Finally([Event(r, "write") EXCEPT
                                     !.wrote = Append(@, stats),
                                     !.pending = Return(SuccessResult(r.target, stats))])]
       \/ /\ Fault
          /\ run' = [run EXCEPT ![s] = Catch(@, "audit")]
          /\ UNCHANGED reports
       \/ \* writeFileSync throws: nothing, or a file cut short, is left behind
          /\ Fault
          /\ LET file == FileName(run[s].target, run[s].timestamp, AuditOptions)
             IN  \/ UNCHANGED reports
                 \/ reports' = [f \in DOMAIN reports \cup {file} |->
                                   IF f = file THEN PartialArtifact ELSE reports[f]]
          /\ run' = [run EXCEPT ![s] = Catch(@, "write")]
    /\ UNCHANGED <<job, auditHistory, backend, emailEnabled, mayFire, reply, dynamicData, sessions>>

\* line 115: the 2 s timer has fired; the finally block starts
Delay(s) ==
    /\ run[s].pc = "delay"
    /\ run' = [run EXCEPT ![s] = Finally(Event(@, "delay"))]
    /\ UNCHANGED <<clock, reports, job, auditHistory, backend, emailEnabled, faultsLeft, mayFire, reply, dynamicData, sessions>>

\* line 117: browser.disconnect has answered; if it threw, the exception leaves
\* runAudit and line 118 is not reached
Disconnect(s) ==
    /\ run[s].pc = "disconnect"
    /\ \/ /\ NoFault
          /\ run' = [run EXCEPT ![s] = FinallyKill([@ EXCEPT !.liveConns = @ - 1])]
       \/ /\ Fault
          /\ run' = [run EXCEPT ![s] =
                 [@ EXCEPT !.pc = "done", !.completion = Throw("disconnect")]]
    /\ UNCHANGED <<clock, reports, job, auditHistory, backend, emailEnabled, mayFire, reply, dynamicData, sessions>>

\* line 118: chrome.kill has answered
Kill(s) ==
    /\ run[s].pc = "kill"
    /\ \/ /\ NoFault
          /\ run' = [run EXCEPT ![s] = EndIteration([@ EXCEPT !.liveProcs = @ - 1])]
       \/ /\ Fault
          /\ run' = [run EXCEPT ![s] =
                 [@ EXCEPT !.pc = "done", !.completion = Throw("kill")]]
    /\ UNCHANGED <<clock, reports, job, auditHistory, backend, emailEnabled, mayFire, reply, dynamicData, sessions>>

(***************************************************************************)
(* engine.js: runAudit (hosted API backend), lines 144-226                 *)
(***************************************************************************)
\* line 163: the PageSpeed request has answered
Psi(s) ==
    /\ run[s].pc = "psi"
    /\ \/ /\ NoFault
          /\ run' = [run EXCEPT ![s] = [@ EXCEPT !.pc = "json"]]
       \/ /\ Fault
          /\ \E message \in {"fetch failed", "PSI API Error"} :
               run' = [run EXCEPT ![s] =
                   [@ EXCEPT !.pc = "done", !.errors = Append(@, message),
                             !.completion = Return(FailureResult(run[s].target, message))]]
    /\ UNCHANGED <<clock, reports, job, auditHistory, backend, emailEnabled, mayFire, reply, dynamicData, sessions>>

\* lines 169-220: response.json has answered; nothing is written to the report
\* directory
PsiJson(s) ==
    /\ run[s].pc = "json"
    /\ \/ /\ NoFault
          /\ \E scores \in LighthouseScores, saved \in BOOLEAN :
               LET r == run[s]
                   stats == HostedStats(r.target, r.timestamp, scores, r.uptime,
                                        AuditOptions, saved)
               IN  run' = [run EXCEPT ![s] =
                       [r EXCEPT !.pc = "done",
                                 !.completion = Return(SuccessResult(r.target, stats))]]
       \/ /\ Fault
          /\ run' = [run EXCEPT ![s] =
                 [@ EXCEPT !.pc = "done", !.errors = Append(@, "json"),
                           !.completion = Return(FailureResult(run[s].target, "json"))]]
    /\ UNCHANGED <<clock, reports, job, auditHistory, backend, emailEnabled, mayFire, reply, dynamicData, sessions>>

(***************************************************************************)
(* scheduler.js: the audit history                                         *)
(***************************************************************************)
HistoryCap == 100

\* result.scores of a result that has no such field is undefined
Field(record, name) == IF name \in DOMAIN record THEN record[name] ELSE Undefined

\* auditHistory.filter(h => h.targetId === id)
TargetHistory(history, id) == SelectSeq(history, LAMBDA h : h.targetId = id)

\* a faulty variant of FindIndex, which finds the oldest entry of any target
FindIndexOfAny(history, id) == 1

\* auditHistory.findIndex(h => h.targetId === id), 1-based
FindIndex(history, id) ==
    CHOOSE i \in 1..Len(history) :
        /\ history[i].targetId = id
        /\ \A j \in 1..(i - 1) : history[j].targetId # id

\* auditHistory.splice(i, 1)
Splice(history, i) == SubSeq(history, 1, i - 1) \o SubSeq(history, i + 1, Len(history))

\* a faulty variant of PushHistory, which never evicts
PushHistoryNoEvict(history, entry) == Append(history, entry)

\* lines 86-98: push, then keep only the last 100 entries of the target
PushHistory(history, entry) ==
    LET pushed == Append(history, entry)
    IN  IF Len(TargetHistory(pushed, entry.targetId)) > HistoryCap
        THEN Splice(pushed, FindIndex(pushed, entry.targetId))
        ELSE pushed

HistoryEntry(target, now, result) ==
    [ targetId |-> target.id, timestamp |-> now,
      scores |-> Field(result, "scores"), uptime |-> Field(result, "uptime") ]

(***************************************************************************)
(* The jobs: one firing of a trigger                                       *)
(***************************************************************************)
IdleJob ==
    [ active |-> FALSE, idx |-> 0, results |-> <<>>, newPainPoints |-> <<>>,
      status |-> "",
      \* history variables: what the invocations of this firing left open, the alerts
      \* it handed to sendAlertEmail (with the loop index at that moment), the number
      \* of the firing and the results of the firing before it
      leakedProcs |-> 0, leakedConns |-> 0,
      alerts |-> <<>>, firing |-> 0, before |-> <<>> ]

\* a faulty variant of PainpointsAlert, which reports the first site only
PainpointsAlertFirst(newPainPoints, at) ==
    [type |-> "painpoints", details |-> <<newPainPoints[1]>>, at |-> at]

\* part_002 lines 108-111: sendAlertEmail({type: 'painpoints', details: newPainPoints})
PainpointsAlert(newPainPoints, at) ==
    [type |-> "painpoints", details |-> newPainPoints, at |-> at]

\* a faulty variant of DowntimeAlert, which names the first configured target
DowntimeAlertFirst(target, at) ==
    [type |-> "downtime", target |-> ConfigTargets[1].name, at |-> at]

\* part_002 lines 32-36 and 50-54: sendAlertEmail({type: 'downtime', target, details})
DowntimeAlert(target, at) ==
    [type |-> "downtime", target |-> target.name, at |-> at]

\* the job has returned
Finished(j) == [j EXCEPT !.active = FALSE, !.status = "returned"]

\* part_002 lines 106-115: after the loop of runFullAudit, the batched alert is sent
\* and awaited before the results are returned
AfterFullAudit(j) ==
    IF Len(j.newPainPoints) > 0 /\ emailEnabled /\ EmailConfig.alerts.onNewPainPoints
    THEN [j EXCEPT !.status = "mail",
                   !.alerts = Append(@, PainpointsAlert(j.newPainPoints, j.idx))]
    ELSE Finished(j)

\* the firings of one behaviour: one trigger alone, or an on-demand audit request
\* together with one other trigger; every trigger fires at most once
Scenarios ==
    {{c} : c \in Triggers} \cup {{"ondemand", c} : c \in Triggers \ {"ondemand"}}

\* the sequential loop: the next invocation starts in the continuation that
\* received the previous one
MayResume(c) == job[c].active /\ run[<<c, job[c].idx>>].pc = "done"

\* the loop of a job moves on: the slot of the finished invocation is cleared and
\* runAudit is called for the next target, or the job ends
Advance(c, j, targets) ==
    LET i == job[c].idx
        r == run[<<c, i>>]
        j1 == [j EXCEPT !.leakedProcs = @ + r.liveProcs, !.leakedConns = @ + r.liveConns]
    IN  IF i < Len(targets)
        THEN /\ job' = [job EXCEPT ![c] = [j1 EXCEPT !.idx = i + 1]]
             /\ run' = [run EXCEPT ![<<c, i>>] = IdleRun,
                                   ![<<c, i + 1>>] = StartRun(targets[i + 1])]
        ELSE /\ job' = [job EXCEPT ![c] =
                        IF c \in FullAuditTriggers THEN AfterFullAudit(j1) ELSE Finished(j1)]
             /\ run' = [run EXCEPT ![<<c, i>>] = IdleRun]

\* a faulty variant of SweepStart, which audits every target at once
SweepStartAll(c, targets) ==
    [s \in Slots |-> IF s[1] = c THEN StartRun(targets[s[2]]) ELSE run[s]]

\* the head of the for loop: runAudit is called for the first target and awaited
SweepStart(c, targets) ==
    [run EXCEPT ![<<c, 1>>] = StartRun(targets[1])]

\* scheduler.js line 153, 159-161: a cron timer calls runFullAudit; index.js line
\* 16: the CLI calls runAllAudits
FireSweep(c) ==
    /\ c \in FullAuditTriggers \cup {"cli"}
    /\ ~job[c].active
    /\ c \in mayFire
    /\ mayFire' = mayFire \ {c}
    /\ job' = [job EXCEPT ![c] = [IdleJob EXCEPT !.active = TRUE, !.idx = 1, !.status = "running"]]
    /\ run' = SweepStart(c, ConfigTargets)
    /\ UNCHANGED <<clock, reports, auditHistory, backend, emailEnabled, faultsLeft, reply, dynamicData, sessions>>

\* scheduler.js lines 72-104: runFullAudit receives the outcome of runAudit
FullAuditResume(c) ==
    /\ c \in FullAuditTriggers
    /\ MayResume(c)
    /\ LET i == job[c].idx
           target == ConfigTargets[i]
           done == run[<<c, i>>].completion
       IN  \/ /\ done.kind = "return"
              /\ done.value # Undefined
              /\ LET result == done.value
                     pains == IF "opportunities" \in DOMAIN result /\ Len(result.opportunities) > 0
                              THEN <<[target |-> target.name, opportunities |-> result.opportunities]>>
                              ELSE <<>>
                 IN  /\ auditHistory' = PushHistory(auditHistory, HistoryEntry(target, clock, result))
                     /\ Advance(c, [job[c] EXCEPT !.results = Append(@, result),
                                                  !.newPainPoints = @ \o pains],
                                ConfigTargets)
           \/ \* the catch block: runAudit threw, or reading a field of undefined did
              /\ IF done.kind = "throw" THEN TRUE ELSE done.value = Undefined
              /\ auditHistory' = auditHistory
              /\ Advance(c, [job[c] EXCEPT !.results =
                                (IF done.kind = "throw" THEN @ ELSE Append(@, Undefined))
                                \o <<FailureResult(target,
                                       IF done.kind = "throw" THEN done.error ELSE "TypeError")>>],
                         ConfigTargets)
    /\ UNCHANGED <<clock, reports, backend, emailEnabled, faultsLeft, mayFire, reply, dynamicData, sessions>>

\* index.js lines 7-10: runAllAudits receives the outcome of runAudit; an exception
\* rejects runAllAudits and the process exits with 1
CliResume ==
    /\ MayResume("cli")
    /\ LET i == job["cli"].idx
           done == run[<<"cli", i>>].completion
       IN  \/ /\ done.kind = "return"
              /\ Advance("cli", [job["cli"] EXCEPT !.results = Append(@, done.value)],
                         ConfigTargets)
           \/ /\ done.kind = "throw"
              /\ job' = [job EXCEPT !["cli"] =
                     [@ EXCEPT !.active = FALSE, !.status = "exit 1",
                               !.leakedProcs = @ + run[<<"cli", i>>].liveProcs,
                               !.leakedConns = @ + run[<<"cli", i>>].liveConns]]
              /\ run' = [run EXCEPT ![<<"cli", i>>] = IdleRun]
    /\ UNCHANGED <<clock, reports, auditHistory, backend, emailEnabled, faultsLeft, mayFire, reply, dynamicData, sessions>>

(***************************************************************************)
(* dashboard.js: POST /api/audit/:targetId                                 *)
(*                                                                         *)
(* The route /api/audit/all is registered after /api/audit/:targetId, so   *)
(* a request for it is served by this handler with targetId = "all".       *)
(***************************************************************************)
RequestIds == {ConfigTargets[i].id : i \in 1..NumTargets} \cup {"all"}

\* getAllTargets().find(t => t.id === id), as an index; 0 when there is none
FindTarget(targets, id) ==
    IF \E i \in 1..Len(targets) : targets[i].id = id
    THEN CHOOSE i \in 1..Len(targets) :
            targets[i].id = id /\ \A k \in 1..(i - 1) : targets[k].id # id
    ELSE 0

\* lines 1659-1663
AuditRequest ==
    /\ ~job["ondemand"].active
    /\ "ondemand" \in mayFire
    /\ mayFire' = mayFire \ {"ondemand"}
    /\ \E id \in RequestIds :
         LET i == FindTarget(getAllTargets, id)
         IN  IF i = 0
             THEN /\ job' = [job EXCEPT !["ondemand"] = [IdleJob EXCEPT !.status = "404"]]
                  /\ run' = run
             ELSE /\ job' = [job EXCEPT !["ondemand"] =
                         [IdleJob EXCEPT !.active = TRUE, !.idx = i, !.status = "running"]]
                  /\ run' = [run EXCEPT ![<<"ondemand", i>>] = StartRun(getAllTargets[i])]
    /\ UNCHANGED <<clock, reports, auditHistory, backend, emailEnabled, faultsLeft, reply, dynamicData, sessions>>

\* lines 1663-1667
AuditRespond ==
    /\ MayResume("ondemand")
    /\ LET i == job["ondemand"].idx
           r == run[<<"ondemand", i>>]
       IN  /\ job' = [job EXCEPT !["ondemand"] =
                  [@ EXCEPT !.active = FALSE,
                            !.status = IF r.completion.kind = "return" THEN "200" ELSE "500",
                            !.results = IF r.completion.kind = "return"
                                        THEN <<r.completion.value>>
                                        ELSE <<[error |-> r.completion.error]>>,
                            !.leakedProcs = @ + r.liveProcs,
                            !.leakedConns = @ + r.liveConns]]
           /\ run' = [run EXCEPT ![<<"ondemand", i>>] = IdleRun]
    /\ UNCHANGED <<clock, reports, auditHistory, backend, emailEnabled, faultsLeft, mayFire, reply, dynamicData, sessions>>

(***************************************************************************)
(* scheduler.js: runUptimeCheck, lines 10-63                               *)
(***************************************************************************)
UptimeResult(target, response) ==
    IF response = 0
    THEN [targetId |-> target.id, name |-> target.name, status |-> "DOWN",
          error |-> "fetch failed"]
    ELSE [targetId |-> target.id, name |-> target.name,
          status |-> IF ResponseOk(response) \/ response < 500 THEN "UP" ELSE "DOWN",
          statusCode |-> response]

\* line 147: the cron timer calls runUptimeCheck; the first HEAD request is sent
FireUptimeCheck ==
    /\ ~job["uptime"].active
    /\ "uptime" \in mayFire
    /\ mayFire' = mayFire \ {"uptime"}
    /\ job' = [job EXCEPT !["uptime"] =
           [IdleJob EXCEPT !.active = TRUE, !.idx = 1, !.status = "running",
                           !.firing = job["uptime"].firing + 1,
                           !.before = job["uptime"].results]]
    /\ UNCHANGED <<clock, reports, run, auditHistory, backend, emailEnabled, faultsLeft, reply, dynamicData, sessions>>

\* the end of an iteration of the loop of runUptimeCheck: the next HEAD request is
\* sent, or the results are returned (lines 15, 59-62)
UptimeNext(j) ==
    IF j.idx < NumTargets
    THEN [j EXCEPT !.idx = @ + 1, !.status = "running"]
    ELSE Finished(j)

\* lines 15-58: a HEAD request has answered; the result is pushed and, for a target
\* that is DOWN, sendAlertEmail is called and awaited
UptimeResume ==
    /\ job["uptime"].active
    /\ job["uptime"].status = "running"
    /\ \E response \in HeadResponses :
         LET i == job["uptime"].idx
             result == UptimeResult(ConfigTargets[i], response)
             j == [job["uptime"] EXCEPT !.results = Append(@, result)]
         IN  job' = [job EXCEPT !["uptime"] =
                 IF result.status = "DOWN" /\ emailEnabled /\ EmailConfig.alerts.onDowntime
                 THEN [j EXCEPT !.status = "mail",
                                !.alerts = Append(@, DowntimeAlert(ConfigTargets[i], i))]
                 ELSE UptimeNext(j)]
    /\ UNCHANGED <<clock, reports, run, auditHistory, backend, emailEnabled, faultsLeft, mayFire, reply, dynamicData, sessions>>

(***************************************************************************)
(* email.js: sendAlertEmail, lines 167-201                                 *)
(***************************************************************************)
\* line 187: transport.sendMail has answered.  sendAlertEmail returns {success: true}
\* or catches the error and returns {success: false}; its callers drop either
\* value, so both answers continue the job in the same way
MailAnswered(c) ==
    /\ job[c].active
    /\ job[c].status = "mail"
    /\ job' = [job EXCEPT ![c] = IF c = "uptime" THEN UptimeNext(@) ELSE Finished(@)]
    /\ UNCHANGED <<clock, reports, run, auditHistory, backend, emailEnabled, faultsLeft, mayFire, reply, dynamicData, sessions>>

(***************************************************************************)
(* dashboard.js: reading the report directory                              *)
(***************************************************************************)
\* fs.readdirSync: the names of the directory, in the directory's order
RECURSIVE Listing(_)
Listing(names) ==
    IF names = {} THEN <<>>
    ELSE LET f == CHOOSE n \in names : TRUE IN <<f>> \o Listing(names \ {f})

\* content.match(/<!-- MAINTENANCE_METADATA:(.*) -->/)
HasMarker(artifact) == Match(artifact).found

\* JSON.parse(match[1])
Metadata(artifact) == ParseJson(Match(artifact).group)

\* Array.prototype.sort((a, b) => b.timestamp - a.timestamp): stable, descending
RECURSIVE InsertDesc(_, _)
InsertDesc(sorted, d) ==
    IF sorted = <<>> THEN <<d>>
    ELSE IF Head(sorted).timestamp >= d.timestamp
         THEN <<Head(sorted)>> \o InsertDesc(Tail(sorted), d)
         ELSE <<d>> \o sorted

RECURSIVE SortDesc(_)
SortDesc(data) ==
    IF data = <<>> THEN <<>>
    ELSE InsertDesc(SortDesc(SubSeq(data, 1, Len(data) - 1)), data[Len(data)])

\* lines 47-55
getAllAuditData(dir) ==
    LET files == SelectSeq(Listing(DOMAIN dir), LAMBDA f : f[3] = "html")
        parsed == [i \in 1..Len(files) |->
                     IF HasMarker(dir[files[i]])
                     THEN [data |-> Metadata(dir[files[i]]), filename |-> files[i]]
                     ELSE [data |-> Undefined, filename |-> files[i]]]
        kept == SelectSeq(parsed, LAMBDA p : p.data # Undefined)
    IN  SortDesc([i \in 1..Len(kept) |->
                     [ targetId |-> kept[i].data.targetId,
                       clientId |-> kept[i].data.clientId,
                       timestamp |-> kept[i].data.timestamp,
                       scores |-> kept[i].data.scores,
                       uptime |-> kept[i].data.uptime,
                       opportunities |-> kept[i].data.opportunities,
                       screenshot |-> kept[i].data.screenshot,
                       filename |-> kept[i].filename ]])

\* latest = {} is a plain object: latest[id] of a name it does not own is the member
\* inherited from Object.prototype when there is one, which is truthy and has no
\* timestamp.  Of the inherited names, a site id (lower case letters, digits,
\* underscores) can be "constructor".
InheritedKeys == {"constructor"}

\* lines 60-64: the forEach over the sorted data; latest is the object's own
\* properties, in insertion order
RECURSIVE LatestFold(_, _)
LatestFold(latest, data) ==
    IF data = <<>> THEN latest
    ELSE LET d == Head(data)
             own == {i \in 1..Len(latest) : latest[i].targetId = d.targetId}
             replace ==
                 IF own # {}
                 THEN \A i \in own : latest[i].timestamp < d.timestamp
                 ELSE d.targetId \notin InheritedKeys
         IN  LatestFold(
                 IF ~replace THEN latest
                 ELSE IF own = {} THEN Append(latest, d)
                 ELSE [i \in 1..Len(latest) |-> IF i \in own THEN d ELSE latest[i]],
                 Tail(data))

\* lines 57-66: Object.values(latest)
getLatestReports(dir) == LatestFold(<<>>, getAllAuditData(dir))

\* GET /api/revenue (line 1642) and the dashboard page (line 1965) read the latest
\* report of every target
ReadLatest ==
    /\ reply' = [kind |-> "latest", body |-> getLatestReports(reports)]
    /\ UNCHANGED <<clock, reports, run, job, auditHistory, backend, emailEnabled, faultsLeft, mayFire, dynamicData, sessions>>

(***************************************************************************)
(* dashboard.js: analyzeMetrics.  Scores are whole numbers of percent; the *)
(* weights 0.35, 0.25, 0.25, 0.15 are counted in hundredths, so that the   *)
(* quotient of the weighted sum by the total weight is an exact fraction.  *)
(***************************************************************************)
\* lines 99-120
MetricThresholds ==
    [ performance |-> [critical |-> 50, warning |-> 75, good |-> 90, weight |-> 35],
      accessibility |-> [critical |-> 60, warning |-> 80, good |-> 90, weight |-> 25],
      seo |-> [critical |-> 50, warning |-> 75, good |-> 90, weight |-> 25],
      bestPractices |-> [critical |-> 50, warning |-> 70, good |-> 85, weight |-> 15] ]

\* the order in which engine.js lines 76-81 puts the keys into a scores object
MetricOrder == <<"performance", "accessibility", "bestPractices", "seo">>

\* lines 164-165: Object.entries(scores) restricted to the keys that have thresholds
MetricEntries(scores) ==
    SelectSeq(MetricOrder, LAMBDA key : key \in DOMAIN scores /\ key \in DOMAIN MetricThresholds)

\* a faulty variant of MetricStatus, for which a score at the critical threshold is critical
MetricStatusInclusive(t, value) ==
    IF value <= t.critical THEN "critical"
    ELSE IF value < t.warning THEN "warning"
    ELSE "good"

\* lines 172, 193-223: the status starts as good and is changed in two branches only
MetricStatus(t, value) ==
    IF value < t.critical THEN "critical"
    ELSE IF value < t.warning THEN "warning"
    ELSE "good"

\* a faulty variant of MetricGrade, which gives D from 60 on and C below
MetricGradeSwapped(t, value) ==
    IF value < t.critical THEN "F"
    ELSE IF value < t.warning THEN (IF value < 60 THEN "C" ELSE "D")
    ELSE IF value >= t.good THEN (IF value >= 95 THEN "A+" ELSE "A")
    ELSE "B"

\* lines 173, 193-223
MetricGrade(t, value) ==
    IF value < t.critical THEN "F"
    ELSE IF value < t.warning THEN (IF value < 60 THEN "D" ELSE "C")
    ELSE IF value >= t.good THEN (IF value >= 95 THEN "A+" ELSE "A")
    ELSE "B"

RECURSIVE SumSeq(_)
SumSeq(xs) == IF xs = <<>> THEN 0 ELSE Head(xs) + SumSeq(Tail(xs))

\* line 229: historicalData.slice(0, 5).map(d => d.scores[key]).filter(s => s !== undefined)
RecentScores(key, historicalData) ==
    LET recent == SubSeq(historicalData, 1, IF Len(historicalData) < 5 THEN Len(historicalData) ELSE 5)
        present == SelectSeq(recent, LAMBDA d : key \in DOMAIN d.scores)
    IN  [i \in 1..Len(present) |-> present[i].scores[key]]

\* lines 226-235
MetricTrend(key, value, historicalData) ==
    LET recentScores == RecentScores(key, historicalData)
        n == Len(recentScores)
        \* trendValue = value - avg, times n
        delta == value * n - SumSeq(recentScores)
    IN  IF Len(historicalData) >= 2 /\ n >= 2
        THEN IF delta > 2 * n THEN "improving"
             ELSE IF delta < (-2) * n THEN "declining"
             ELSE "stable"
        ELSE "stable"

\* 0 / 0 is NaN, which is no score: a number below every score stands for it
NaN == -1

\* a faulty variant of MathRound, which drops the fraction
MathTrunc(numerator, denominator) ==
    IF denominator = 0 THEN NaN ELSE numerator \div denominator

\* Math.round(numerator / denominator) for a numerator >= 0: the nearest whole
\* number, the upper one of two equally near; 0 / 0 is NaN
MathRound(numerator, denominator) ==
    IF denominator = 0 THEN NaN
    ELSE (2 * numerator + denominator) \div (2 * denominator)

\* lines 267-272: every comparison with NaN is false
OverallGrade(overallScore) ==
    IF overallScore = NaN THEN "F"
    ELSE IF overallScore >= 95 THEN "A+"
    ELSE IF overallScore >= 90 THEN "A"
    ELSE IF overallScore >= 80 THEN "B"
    ELSE IF overallScore >= 70 THEN "C"
    ELSE IF overallScore >= 60 THEN "D"
    ELSE "F"

\* a faulty variant of analyzeMetrics, which stamps the analysis with the time of the call
analyzeMetricsAt(scores, historicalData) ==
    LET keys == MetricEntries(scores)
        weightedScore == SumSeq([i \in 1..Len(keys) |->
                                    scores[keys[i]] * MetricThresholds[keys[i]].weight])
        totalWeight == SumSeq([i \in 1..Len(keys) |-> MetricThresholds[keys[i]].weight])
        status == [key \in {keys[i] : i \in 1..Len(keys)} |->
                      MetricStatus(MetricThresholds[key], scores[key])]
        criticalIssues == SelectSeq(keys, LAMBDA key : status[key] = "critical")
        warnings == SelectSeq(keys, LAMBDA key : status[key] = "warning")
        overallScore == MathRound(weightedScore, totalWeight)
    IN  [ overall |-> IF Len(criticalIssues) > 0 THEN "critical"
                      ELSE IF Len(warnings) > 0 THEN "warning" ELSE "good",
          overallScore |-> overallScore,
          overallGrade |-> OverallGrade(overallScore),
          metrics |-> [key \in {keys[i] : i \in 1..Len(keys)} |->
                          [ score |-> scores[key],
                            status |-> status[key],
                            grade |-> MetricGrade(MetricThresholds[key], scores[key]),
                            trend |-> MetricTrend(key, scores[key], historicalData) ]],
          criticalIssues |-> criticalIssues,
          warnings |-> warnings,
          strengths |-> SelectSeq(keys, LAMBDA key : scores[key] >= MetricThresholds[key].good),
          riskScore |-> Len(criticalIssues) * 30 + Len(warnings) * 15,
          generatedAt |-> clock ]

\* lines 81-324, the members of the analysis that depend on the scores and on the
\* history: the texts, the percentile, the benchmarks, the opportunity score and
\* the insights are left out
analyzeMetrics(scores, historicalData) ==
    LET keys == MetricEntries(scores)
        weightedScore == SumSeq([i \in 1..Len(keys) |->
                                    scores[keys[i]] * MetricThresholds[keys[i]].weight])
        totalWeight == SumSeq([i \in 1..Len(keys) |-> MetricThresholds[keys[i]].weight])
        status == [key \in {keys[i] : i \in 1..Len(keys)} |->
                      MetricStatus(MetricThresholds[key], scores[key])]
        criticalIssues == SelectSeq(keys, LAMBDA key : status[key] = "critical")
        warnings == SelectSeq(keys, LAMBDA key : status[key] = "warning")
        overallScore == MathRound(weightedScore, totalWeight)
    IN  [ overall |-> IF Len(criticalIssues) > 0 THEN "critical"
                      ELSE IF Len(warnings) > 0 THEN "warning" ELSE "good",
          overallScore |-> overallScore,
          overallGrade |-> OverallGrade(overallScore),
          metrics |-> [key \in {keys[i] : i \in 1..Len(keys)} |->
                          [ score |-> scores[key],
                            status |-> status[key],
                            grade |-> MetricGrade(MetricThresholds[key], scores[key]),
                            trend |-> MetricTrend(key, scores[key], historicalData) ]],
          criticalIssues |-> criticalIssues,
          warnings |-> warnings,
          strengths |-> SelectSeq(keys, LAMBDA key : scores[key] >= MetricThresholds[key].good),
          riskScore |-> Len(criticalIssues) * 30 + Len(warnings) * 15 ]

(***************************************************************************)
(* dashboard.js: generateRecommendations.  Of a recommendation the model   *)
(* keeps the id, the priority, the category and the title.                 *)
(***************************************************************************)
\* config.revenue.painPointValues (part_001 lines 119-126): the priority of each label
PainPointPriority ==
    [ opp \in { "Speed Optimization Service", "Accessibility Remediation", "SEO Audit & Fix",
                "Hosting Migration/Stability Upgrade", "Security Hardening",
                "Mobile Optimization" } |->
        CASE opp = "Speed Optimization Service" -> "high"
          [] opp = "Accessibility Remediation" -> "critical"
          [] opp = "SEO Audit & Fix" -> "medium"
          [] opp = "Hosting Migration/Stability Upgrade" -> "high"
          [] opp = "Security Hardening" -> "critical"
          [] opp = "Mobile Optimization" -> "medium" ]

\* line 576: the priority of the label, or medium for a label without a value
OppPriority(opp) ==
    IF opp \in DOMAIN PainPointPriority THEN PainPointPriority[opp] ELSE "medium"

\* lines 576, 590: the cost of the label (part_001 lines 120-125), or 400 to 1000
\* for a label without a value
OppCost(opp) ==
    CASE opp = "Speed Optimization Service" -> [min |-> 500, max |-> 1500]
      [] opp = "Accessibility Remediation" -> [min |-> 800, max |-> 2500]
      [] opp = "SEO Audit & Fix" -> [min |-> 400, max |-> 1200]
      [] opp = "Hosting Migration/Stability Upgrade" -> [min |-> 1000, max |-> 3000]
      [] opp = "Security Hardening" -> [min |-> 1500, max |-> 5000]
      [] opp = "Mobile Optimization" -> [min |-> 600, max |-> 1800]
      [] OTHER -> [min |-> 400, max |-> 1000]

\* line 574: opp.toLowerCase().split(' ')[0]
FirstWord(opp) ==
    CASE opp = "Speed Optimization Service" -> "speed"
      [] opp = "Accessibility Remediation" -> "accessibility"
      [] opp = "SEO Audit & Fix" -> "seo"
      [] opp = "Hosting Migration/Stability Upgrade" -> "hosting"
      [] opp = "Security Hardening" -> "security"
      [] opp = "Mobile Optimization" -> "mobile"
      [] opp = "Content Refresh" -> "content"

\* line 578: `opp-${opp.toLowerCase().replace(/\s+/g, '-')}`
OppId(opp) ==
    CASE opp = "Speed Optimization Service" -> "opp-speed-optimization-service"
      [] opp = "Accessibility Remediation" -> "opp-accessibility-remediation"
      [] opp = "SEO Audit & Fix" -> "opp-seo-audit-&-fix"
      [] opp = "Hosting Migration/Stability Upgrade" -> "opp-hosting-migration/stability-upgrade"
      [] opp = "Security Hardening" -> "opp-security-hardening"
      [] opp = "Mobile Optimization" -> "opp-mobile-optimization"
      [] opp = "Content Refresh" -> "opp-content-refresh"

\* line 574: title.toLowerCase().includes(word), for the titles of lines 356-545
\* and the labels, which are the titles of the recommendations of line 582
TitleIncludes(title, word) ==
    \/ word = "speed" /\ title = "Critical Speed Optimization Required"
    \/ word = "accessibility" /\ title \in { "Accessibility Compliance Required",
                                             "Accessibility Enhancement Recommended" }
    \/ word = "security" /\ title = "Web Standards & Security Improvements"
    \/ (title \in DOMAIN PainPointPriority \cup {"Content Refresh"} /\ word = FirstWord(title))

\* `scores.x < bound`: false when the score is undefined
Below(scores, key, bound) == key \in DOMAIN scores /\ scores[key] < bound

\* lines 348-570: the recommendations of the four metrics, in the order of the code
MetricRecommendations(scores) ==
    (IF Below(scores, "performance", 50)
     THEN << [id |-> "perf-critical", priority |-> "critical", category |-> "Performance",
              title |-> "Critical Speed Optimization Required",
              cost |-> [min |-> 1200, max |-> 3500]] >>
     ELSE IF Below(scores, "performance", 75)
     THEN << [id |-> "perf-warning", priority |-> "high", category |-> "Performance",
              title |-> "Performance Optimization Needed",
              cost |-> [min |-> 600, max |-> 1800]] >>
     ELSE <<>>)
    \o
    (IF Below(scores, "accessibility", 70)
     THEN << [id |-> "a11y-critical", priority |-> "high", category |-> "Accessibility",
              title |-> "Accessibility Compliance Required",
              cost |-> [min |-> 800, max |-> 2500]] >>
     ELSE IF Below(scores, "accessibility", 90)
     THEN << [id |-> "a11y-warning", priority |-> "medium", category |-> "Accessibility",
              title |-> "Accessibility Enhancement Recommended",
              cost |-> [min |-> 400, max |-> 1000]] >>
     ELSE <<>>)
    \o
    (IF Below(scores, "seo", 75)
     THEN << [id |-> "seo-high", priority |-> "high", category |-> "SEO",
              title |-> "Search Engine Optimization Required",
              cost |-> [min |-> 600, max |-> 1500]] >>
     ELSE <<>>)
    \o
    (IF Below(scores, "bestPractices", 80)
     THEN << [id |-> "bp-medium", priority |-> "medium", category |-> "Best Practices",
              title |-> "Web Standards & Security Improvements",
              cost |-> [min |-> 400, max |-> 1000]] >>
     ELSE <<>>)

\* lines 573-593: a label adds a recommendation unless a title includes its first word
RECURSIVE AddOpportunities(_, _)
AddOpportunities(recommendations, opportunities) ==
    IF opportunities = <<>> THEN recommendations
    ELSE LET opp == Head(opportunities)
             existing == \E i \in 1..Len(recommendations) :
                            TitleIncludes(recommendations[i].title, FirstWord(opp))
         IN  AddOpportunities(
                 IF existing THEN recommendations
                 ELSE Append(recommendations,
                             [id |-> OppId(opp), priority |-> OppPriority(opp),
                              category |-> "Identified Opportunity", title |-> opp,
                              cost |-> OppCost(opp)]),
                 Tail(opportunities))

\* the array before line 640
GeneratedRecommendations(scores, opportunities) ==
    AddOpportunities(MetricRecommendations(scores), opportunities)

\* line 641
priorityOrder == [critical |-> 0, high |-> 1, medium |-> 2, low |-> 3]

\* lines 640-643: Array.prototype.sort with the comparator of the ranks is stable
RECURSIVE InsertByPriority(_, _)
InsertByPriority(sorted, r) ==
    IF sorted = <<>> THEN <<r>>
    ELSE IF priorityOrder[Head(sorted).priority] <= priorityOrder[r.priority]
         THEN <<Head(sorted)>> \o InsertByPriority(Tail(sorted), r)
         ELSE <<r>> \o sorted

RECURSIVE SortByPriority(_)
SortByPriority(recommendations) ==
    IF recommendations = <<>> THEN <<>>
    ELSE InsertByPriority(SortByPriority(SubSeq(recommendations, 1, Len(recommendations) - 1)),
                          recommendations[Len(recommendations)])

\* lines 596-599, 613, 624: the reduce that adds up the costs
RECURSIVE TotalCost(_)
TotalCost(recommendations) ==
    IF recommendations = <<>> THEN [min |-> 0, max |-> 0]
    ELSE LET rest == TotalCost(Tail(recommendations))
         IN  [min |-> Head(recommendations).cost.min + rest.min,
              max |-> Head(recommendations).cost.max + rest.max]

Ids(recommendations) == [i \in 1..Len(recommendations) |-> recommendations[i].id]

\* a faulty variant of Packages, whose Foundation Package holds the high priority
\* recommendations only
PackagesHighOnly(recommendations) ==
    LET criticalRecs == SelectSeq(recommendations, LAMBDA r : r.priority = "critical")
        highRecs == SelectSeq(recommendations, LAMBDA r : r.priority = "high")
    IN  (IF Len(criticalRecs) > 0
         THEN << [name |-> "Emergency Fix", recommendations |-> Ids(criticalRecs),
                  cost |-> TotalCost(criticalRecs)] >>
         ELSE <<>>)
        \o
        (IF Len(highRecs) > 0 \/ Len(criticalRecs) > 0
         THEN << [name |-> "Foundation Package", recommendations |-> Ids(highRecs),
                  cost |-> TotalCost(highRecs)] >>
         ELSE <<>>)
        \o
        << [name |-> "Complete Optimization", recommendations |-> Ids(recommendations),
            cost |-> TotalCost(recommendations)] >>

\* lines 595-637: the packages, built from the array before it is sorted
Packages(recommendations) ==
    LET criticalRecs == SelectSeq(recommendations, LAMBDA r : r.priority = "critical")
        highRecs == SelectSeq(recommendations, LAMBDA r : r.priority = "high")
    IN  (IF Len(criticalRecs) > 0
         THEN << [name |-> "Emergency Fix", recommendations |-> Ids(criticalRecs),
                  cost |-> TotalCost(criticalRecs)] >>
         ELSE <<>>)
        \o
        (IF Len(highRecs) > 0 \/ Len(criticalRecs) > 0
         THEN << [name |-> "Foundation Package",
                  recommendations |-> Ids(criticalRecs \o highRecs),
                  cost |-> TotalCost(criticalRecs \o highRecs)] >>
         ELSE <<>>)
        \o
        << [name |-> "Complete Optimization", recommendations |-> Ids(recommendations),
            cost |-> TotalCost(recommendations)] >>

\* a faulty variant of generateRecommendations, which returns the array as generated
generateRecommendationsUnsorted(scores, opportunities, analysis) ==
    [ recommendations |-> GeneratedRecommendations(scores, opportunities),
      packages |-> Packages(GeneratedRecommendations(scores, opportunities)),
      summary |-> [totalRecommendations |-> Len(GeneratedRecommendations(scores, opportunities))] ]

\* lines 327-658: the sorted recommendations, the packages and the number of
\* recommendations; the quick wins and the other counts are left out
generateRecommendations(scores, opportunities, analysis) ==
    [ recommendations |-> SortByPriority(GeneratedRecommendations(scores, opportunities)),
      packages |-> Packages(GeneratedRecommendations(scores, opportunities)),
      summary |-> [totalRecommendations |-> Len(GeneratedRecommendations(scores, opportunities))] ]

(***************************************************************************)
(* dashboard.js: the sites added and removed through the dashboard         *)
(*                                                                         *)
(* Host names and client names are sequences of characters, so that the    *)
(* replacements of the handler act on them as the regular expressions do.  *)
(***************************************************************************)
Lowercase == <<"a", "b", "c", "d", "e", "f", "g", "h", "i", "j", "k", "l", "m", "n", "o", "p", "q", "r", "s", "t", "u", "v", "w", "x", "y", "z">>
Uppercase == <<"A", "B", "C", "D", "E", "F", "G", "H", "I", "J", "K", "L", "M", "N", "O", "P", "Q", "R", "S", "T", "U", "V", "W", "X", "Y", "Z">>
Digits == {"0", "1", "2", "3", "4", "5", "6", "7", "8", "9"}

\* the character class \w
IsWord(c) ==
    \/ \E i \in 1..26 : c = Lowercase[i] \/ c = Uppercase[i]
    \/ c \in Digits \cup {"_"}

toUpperCase(c) == IF \E i \in 1..26 : Lowercase[i] = c
                  THEN Uppercase[CHOOSE i \in 1..26 : Lowercase[i] = c] ELSE c

toLowerCase(c) == IF \E i \in 1..26 : Uppercase[i] = c
                  THEN Lowercase[CHOOSE i \in 1..26 : Uppercase[i] = c] ELSE c

\* the string of a sequence of characters
RECURSIVE Text(_)
Text(chars) == IF chars = <<>> THEN "" ELSE Head(chars) \o Text(Tail(chars))

\* the requests' urls and what new URL(url) makes of them: it throws, or it gives
\* the host name, in lower case
ParsedUrls ==
    << [url |-> "https://comply-flow.vercel.app", valid |-> TRUE, hostname |-> <<"c", "o", "m", "p", "l", "y", "-", "f", "l", "o", "w", ".", "v", "e", "r", "c", "e", "l", ".", "a", "p", "p">>],
       [url |-> "https://comply-flow.vercel.app/", valid |-> TRUE, hostname |-> <<"c", "o", "m", "p", "l", "y", "-", "f", "l", "o", "w", ".", "v", "e", "r", "c", "e", "l", ".", "a", "p", "p">>],
       [url |-> "https://complyflow.vercel.app", valid |-> TRUE, hostname |-> <<"c", "o", "m", "p", "l", "y", "f", "l", "o", "w", ".", "v", "e", "r", "c", "e", "l", ".", "a", "p", "p">>],
       [url |-> "http://complyflow/", valid |-> TRUE, hostname |-> <<"c", "o", "m", "p", "l", "y", "f", "l", "o", "w">>],
       [url |-> "https://www.acme-care.io", valid |-> TRUE, hostname |-> <<"w", "w", "w", ".", "a", "c", "m", "e", "-", "c", "a", "r", "e", ".", "i", "o">>],
       [url |-> "not a url", valid |-> FALSE, hostname |-> <<>>] >>

SampleUrls == {ParsedUrls[i].url : i \in 1..Len(ParsedUrls)} \cup {""}

\* new URL(url)
NewURL(url) == ParsedUrls[CHOOSE i \in 1..Len(ParsedUrls) : ParsedUrls[i].url = url]

\* lines 1703-1707: hostname.replace(/^www\./, '').split('.')[0]
\*   .replace(/-/g, ' ').replace(/\b\w/g, l => l.toUpperCase())
SiteName(hostname) ==
    LET bare == IF Len(hostname) >= 4 /\ SubSeq(hostname, 1, 4) = <<"w", "w", "w", ".">>
                THEN SubSeq(hostname, 5, Len(hostname)) ELSE hostname
        dots == {i \in 1..Len(bare) : bare[i] = "."}
        first == IF dots = {} THEN bare
                 ELSE SubSeq(bare, 1, (CHOOSE i \in dots : \A j \in dots : i <= j) - 1)
        spaced == [i \in 1..Len(first) |-> IF first[i] = "-" THEN " " ELSE first[i]]
    IN  Text([i \in 1..Len(spaced) |->
                IF IsWord(spaced[i]) /\ (i = 1 \/ ~IsWord(spaced[i - 1]))
                THEN toUpperCase(spaced[i]) ELSE spaced[i]])

\* line 1709: hostname.replace(/\./g, '_').replace(/[^a-z0-9_]/gi, '').toLowerCase()
SiteId(hostname) ==
    LET underscored == [i \in 1..Len(hostname) |-> IF hostname[i] = "." THEN "_" ELSE hostname[i]]
        kept == SelectSeq(underscored, IsWord)
    IN  Text([i \in 1..Len(kept) |-> toLowerCase(kept[i])])

\* line 1722: clientName.toLowerCase().replace(/\s+/g, '_')
RECURSIVE CollapseSpaces(_)
CollapseSpaces(chars) ==
    IF chars = <<>> THEN <<>>
    ELSE IF Head(chars) # " " THEN <<Head(chars)>> \o CollapseSpaces(Tail(chars))
    ELSE IF Len(chars) > 1 /\ chars[2] = " " THEN CollapseSpaces(Tail(chars))
    ELSE <<"_">> \o CollapseSpaces(Tail(chars))

ClientId(clientName) ==
    Text(CollapseSpaces([i \in 1..Len(clientName) |-> toLowerCase(clientName[i])]))

\* the clientName of a request body: none (or the empty string, which is as falsy),
\* or a name
SampleClientNames == {<<>>, <<"A", "c", "m", "e", " ", " ", "C", "a", "r", "e", " ", "L", "t", "d">>}

\* a faulty variant of SiteExists, which compares the ids only
SiteExistsById(allTargets, siteId, url) ==
    \E i \in 1..Len(allTargets) : allTargets[i].id = siteId

\* line 1713: allTargets.find(t => t.id === siteId || t.url === url)
SiteExists(allTargets, siteId, url) ==
    \E i \in 1..Len(allTargets) : allTargets[i].id = siteId \/ allTargets[i].url = url

\* lines 1720-1739: the client of the new site is created unless it is there
WithClient(clients, clientName) ==
    LET clientId == IF clientName # <<>> THEN ClientId(clientName) ELSE "quick_add"
        name == IF clientName # <<>> THEN Text(clientName) ELSE "Quick Add Sites"
    IN  IF \E i \in 1..Len(clients) : clients[i].id = clientId
        THEN clients
        ELSE Append(clients, [id |-> clientId, name |-> name, tier |-> "Standard", email |-> ""])

\* lines 1742-1749
NewTarget(url, hostname, clientName) ==
    [ name |-> SiteName(hostname), url |-> url, id |-> SiteId(hostname),
      clientId |-> IF clientName # <<>> THEN ClientId(clientName) ELSE "quick_add",
      type |-> "Website", addedAt |-> clock ]

\* the invocation of runAudit the add handler awaits
SiteRun == <<"ondemand", 1>>

\* lines 1692-1773: POST /api/sites/add.  Everything up to saveDynamicData runs in
\* one continuation; the answer of a request with runAudit waits for the audit
AddSite(body) ==
    LET url == body.url
        Answer(status, error) ==
            /\ reply' = [kind |-> "sites/add", status |-> status, error |-> error, url |-> url]
            /\ UNCHANGED <<dynamicData, run>>
    IN  /\ IF url = "" THEN Answer(400, "URL is required")
           ELSE IF ~NewURL(url).valid THEN Answer(400, "Invalid URL")
           ELSE LET hostname == NewURL(url).hostname
                    newTarget == NewTarget(url, hostname, body.clientName)
                IN  IF SiteExists(getAllTargets, newTarget.id, url)
                    THEN Answer(400, "Site already exists")
                    ELSE /\ dynamicData' =
                                [ clients |-> WithClient(dynamicData.clients, body.clientName),
                                  targets |-> Append(dynamicData.targets, newTarget) ]
                         /\ IF body.runAudit
                            THEN /\ run[SiteRun].pc = "idle"
                                 /\ run' = [run EXCEPT ![SiteRun] = StartRun(newTarget)]
                                 /\ reply' = reply
                            ELSE /\ run' = run
                                 /\ reply' = [kind |-> "sites/add", status |-> 200, url |-> url,
                                              site |-> newTarget, audit |-> Null]
        /\ UNCHANGED <<clock, reports, job, auditHistory, backend, emailEnabled, faultsLeft,
                       mayFire, sessions>>

\* lines 1756-1768: the initial audit has ended; what it threw is logged and dropped
AddSiteAnswer ==
    /\ run[SiteRun].pc = "done"
    /\ reply' = [kind |-> "sites/add", status |-> 200, url |-> run[SiteRun].target.url,
                 site |-> run[SiteRun].target,
                 audit |-> IF run[SiteRun].completion.kind = "return"
                           THEN run[SiteRun].completion.value ELSE Null]
    /\ run' = [run EXCEPT ![SiteRun] = IdleRun]
    /\ UNCHANGED <<clock, reports, job, auditHistory, backend, emailEnabled, faultsLeft,
                   mayFire, dynamicData, sessions>>

\* data.targets.findIndex(t => t.id === siteId), 1-based; 0 when there is none
FindSite(targets, siteId) ==
    IF \E i \in 1..Len(targets) : targets[i].id = siteId
    THEN CHOOSE i \in 1..Len(targets) :
            /\ targets[i].id = siteId
            /\ \A j \in 1..(i - 1) : targets[j].id # siteId
    ELSE 0

\* lines 1775-1794: DELETE /api/sites/:siteId
RemoveSite(siteId) ==
    /\ IF \E i \in 1..NumTargets : ConfigTargets[i].id = siteId
       THEN /\ reply' = [kind |-> "sites/remove", status |-> 400, siteId |-> siteId,
                         error |-> "Cannot delete built-in sites. Edit config.js instead."]
            /\ dynamicData' = dynamicData
       ELSE LET idx == FindSite(dynamicData.targets, siteId)
            IN  IF idx = 0
                THEN /\ reply' = [kind |-> "sites/remove", status |-> 404, siteId |-> siteId,
                                  error |-> "Site not found"]
                     /\ dynamicData' = dynamicData
                ELSE /\ reply' = [kind |-> "sites/remove", status |-> 200, siteId |-> siteId]
                     /\ dynamicData' = [dynamicData EXCEPT !.targets = Splice(@, idx)]
    /\ UNCHANGED <<clock, reports, run, job, auditHistory, backend, emailEnabled, faultsLeft,
                   mayFire, sessions>>

(***************************************************************************)
(* dashboard.js: sessions                                                  *)
(***************************************************************************)
\* config.auth.users, with the passwords the comments of the configuration give
\* for the stored hashes
AuthUsers ==
    << [username |-> "admin", password |-> "maintenance123", role |-> "admin"],
       [username |-> "viewer", password |-> "view123", role |-> "viewer"] >>

\* config.auth.users.find(u => u.username === username), as an index; 0 when there
\* is none
FindUser(username) ==
    IF \E i \in 1..Len(AuthUsers) : AuthUsers[i].username = username
    THEN CHOOSE i \in 1..Len(AuthUsers) : AuthUsers[i].username = username
    ELSE 0

\* Math.random().toString(36).substring(2): any string, the empty one and one that
\* is in use included
SessionIds == {"", "k3f9", "x07q"}

\* req.headers.cookie?.match(/session=([^;]+)/)?.[1] of a request whose cookie
\* header is `session=<value>`, or that has none (the empty value): the value, or
\* undefined
CookieValues == SessionIds

HasSessionId(cookie) == cookie # ""

\* sessions.delete(sessionId)
DeleteSession(store, sessionId) == [k \in DOMAIN store \ {sessionId} |-> store[k]]

\* line 1602: password === 'maintenance123' || password === 'view123'
PasswordAccepted(user, password) ==
    password = "maintenance123" \/ password = "view123"

\* lines 1597-1608: POST /api/login
Login(username, password, sessionId) ==
    /\ LET u == FindUser(username)
       IN  IF u # 0 /\ PasswordAccepted(AuthUsers[u], password)
           THEN /\ sessions' = (sessionId :> [username |-> username, role |-> AuthUsers[u].role])
                                  @@ sessions
                /\ reply' = [kind |-> "login", status |-> 200, username |-> username,
                             password |-> password, cookie |-> sessionId]
           ELSE /\ sessions' = sessions
                /\ reply' = [kind |-> "login", status |-> 401, username |-> username,
                             password |-> password]
    /\ UNCHANGED <<clock, reports, run, job, auditHistory, backend, emailEnabled, faultsLeft,
                   mayFire, dynamicData>>

\* lines 1610-1615: POST /api/logout, reached through the middleware with a session
Logout(cookie) ==
    /\ HasSessionId(cookie) /\ cookie \in DOMAIN sessions
    /\ sessions' = DeleteSession(sessions, cookie)
    /\ reply' = [kind |-> "logout", status |-> 200, cookie |-> cookie]
    /\ UNCHANGED <<clock, reports, run, job, auditHistory, backend, emailEnabled, faultsLeft,
                   mayFire, dynamicData>>

\* the paths of the requests: the login page, the login route, an API route and a
\* page; apiPath is req.path.startsWith('/api/')
SamplePaths ==
    { [path |-> "/login", login |-> TRUE, apiPath |-> FALSE],
      [path |-> "/api/login", login |-> TRUE, apiPath |-> TRUE],
      [path |-> "/api/logout", login |-> FALSE, apiPath |-> TRUE],
      [path |-> "/api/data", login |-> FALSE, apiPath |-> TRUE],
      [path |-> "/", login |-> FALSE, apiPath |-> FALSE] }

\* lines 1573-1588: authMiddleware, config.auth.enabled being true
authMiddleware(cookie, p) ==
    /\ reply' =
         IF HasSessionId(cookie) /\ cookie \in DOMAIN sessions
         THEN [kind |-> "request", path |-> p.path, cookie |-> cookie, outcome |-> "next",
               user |-> sessions[cookie]]
         ELSE IF p.login
         THEN [kind |-> "request", path |-> p.path, cookie |-> cookie, outcome |-> "next",
               user |-> Undefined]
         ELSE IF p.apiPath
         THEN [kind |-> "request", path |-> p.path, cookie |-> cookie, outcome |-> "401",
               user |-> Undefined]
         ELSE [kind |-> "request", path |-> p.path, cookie |-> cookie, outcome |-> "redirect",
               user |-> Undefined]
    /\ UNCHANGED <<clock, reports, run, job, auditHistory, backend, emailEnabled, faultsLeft,
                   mayFire, dynamicData, sessions>>

(***************************************************************************)
(* The specification                                                       *)
(***************************************************************************)
Init ==
    /\ clock = 1
    /\ reports = <<>>
    /\ run = [s \in Slots |-> IdleRun]
    /\ job = [c \in Triggers |-> IdleJob]
    /\ auditHistory = <<>>
    /\ backend \in {"browser", "hosted"}
    /\ emailEnabled = EmailConfig.enabled
    \* one firing with injected failures, or overlapping firings
    /\ mayFire \in Scenarios
    /\ dynamicData = NoDynamicData
    /\ sessions = NoSessions
    /\ reply = [kind |-> "none"]
    /\ faultsLeft = IF Cardinality(mayFire) = 1 THEN MaxFaults ELSE MaxOverlapFaults

RunStep ==
    \E s \in Slots :
        \/ RunProbe(s)
        \/ Launch(s)
        \/ Connect(s)
        \/ Navigate(s)
        \/ Screenshot(s)
        \/ Lighthouse(s)
        \/ Delay(s)
        \/ Disconnect(s)
        \/ Kill(s)
        \/ Psi(s)
        \/ PsiJson(s)

Next ==
    \/ Tick
    \/ RunStep
    \/ \E c \in Triggers : FireSweep(c)
    \/ \E c \in Triggers : FullAuditResume(c)
    \/ CliResume
    \/ AuditRequest
    \/ AuditRespond
    \/ FireUptimeCheck
    \/ UptimeResume

Spec == Init /\ [][Next]_vars

(***************************************************************************)
(* The read side alone: getLatestReports applied to report directories     *)
(***************************************************************************)
MaxStamp == 2

\* a site added through POST /api/sites/add with the url http://constructor gets the
\* id "constructor" (lines 1703-1749)
SampleTargets ==
    { ConfigTargets[1], ConfigTargets[2],
      [id |-> "constructor", name |-> "Constructor", clientId |-> "quick_add"] }

SampleFiles == {FileName(t, ts, AuditOptions) : t \in SampleTargets, ts \in 1..MaxStamp}

SampleTarget(id) == CHOOSE t \in SampleTargets : t.id = id

SampleArtifact(file) ==
    Artifact(Stats(SampleTarget(file[1]), file[2],
                   CHOOSE sc \in LighthouseScores : TRUE, checkUptime(404), AuditOptions))

InitLatest ==
    /\ clock = 1
    /\ \E content \in [SampleFiles -> {"absent", "complete", "partial"}] :
          reports = [f \in {g \in SampleFiles : content[g] # "absent"} |->
                        IF content[f] = "complete" THEN SampleArtifact(f) ELSE PartialArtifact]
    /\ run = [s \in Slots |-> IdleRun]
    /\ job = [c \in Triggers |-> IdleJob]
    /\ auditHistory = <<>>
    /\ backend = "browser"
    /\ emailEnabled = FALSE
    /\ faultsLeft = 0
    /\ mayFire = {}
    /\ dynamicData = NoDynamicData
    /\ sessions = NoSessions
    /\ reply = [kind |-> "none"]

NextLatest == ReadLatest

SpecLatest == InitLatest /\ [][NextLatest]_vars

(***************************************************************************)
(* The history ring alone: full-audit firings on a history that earlier    *)
(* firings have filled, runAudit reduced to its outcome                    *)
(***************************************************************************)
SampleResultOf(target, now, scores) ==
    SuccessResult(target, Stats(target, now, scores, checkUptime(404), AuditOptions))

SampleResult(target, now) ==
    SampleResultOf(target, now, CHOOSE sc \in LighthouseScores : TRUE)

\* the history after k firings that ran one after the other, k <= HistoryCap:
\* firing n pushed one entry per target, in configuration order, and nothing was
\* evicted yet
Warmup(k) ==
    [j \in 1..(k * NumTargets) |->
        LET target == ConfigTargets[((j - 1) % NumTargets) + 1]
            now == ((j - 1) \div NumTargets) + 1
        IN  HistoryEntry(target, now, SampleResult(target, now))]

HistoryWarmups == {0, HistoryCap - 1, HistoryCap}

\* runAudit from its call to its completion, for a caller that only looks at the
\* outcome: a success, a failure result, or an exception of the finally block
RunOutcome(s) ==
    /\ run[s].pc = "probe"
    /\ \E done \in { Return(SampleResultOf(run[s].target, clock, sc)) : sc \in LighthouseScores }
                  \cup { Return(FailureResult(run[s].target, "launch")),
                         Throw("disconnect") } :
          run' = [run EXCEPT ![s] = [@ EXCEPT !.pc = "done", !.completion = done]]
    /\ UNCHANGED <<clock, reports, job, auditHistory, backend, emailEnabled, faultsLeft, mayFire, reply, dynamicData, sessions>>

InitHistory ==
    /\ \E k \in HistoryWarmups : auditHistory = Warmup(k) /\ clock = k + 1
    /\ reports = <<>>
    /\ run = [s \in Slots |-> IdleRun]
    /\ job = [c \in Triggers |-> IdleJob]
    /\ backend = "browser"
    /\ emailEnabled = FALSE
    /\ faultsLeft = 0
    /\ mayFire = FullAuditTriggers
    /\ dynamicData = NoDynamicData
    /\ sessions = NoSessions
    /\ reply = [kind |-> "none"]

NextHistory ==
    \/ \E c \in FullAuditTriggers : FireSweep(c)
    \/ \E s \in Slots : RunOutcome(s)
    \/ \E c \in FullAuditTriggers : FullAuditResume(c)

SpecHistory == InitHistory /\ [][NextHistory]_vars

(***************************************************************************)
(* The pure parts alone: the two uptime classifications applied to sample  *)
(* answers, the derivation of the opportunities applied to sample scores   *)
(* and thresholds                                                          *)
(***************************************************************************)
\* statuses of a received response, and 0 for a network exception
SampleResponses == {200, 204, 301, 404, 499, 500, 503, 599, 0}

SampleScoreValues == {50, 89, 90}

SampleScores ==
    [performance : SampleScoreValues, accessibility : SampleScoreValues,
     bestPractices : {50, 90}, seo : SampleScoreValues]

\* config.audit.thresholds with any of the keys left out or set
SampleThresholds ==
    UNION {[keys -> {0, 50, 90}] : keys \in SUBSET {"performance", "accessibility", "seo"}}

\* engine.js line 28: checkUptime is called and answers
CallCheckUptime ==
    /\ reply.kind = "response"
    /\ reply' = [kind |-> "checkUptime", response |-> reply.response,
                 uptime |-> checkUptime(reply.response)]
    /\ UNCHANGED <<clock, reports, run, job, auditHistory, backend, emailEnabled, faultsLeft, mayFire, dynamicData, sessions>>

\* part_002 lines 18-47: the uptime check classifies the same answer
CallUptimeResult ==
    /\ reply.kind = "response"
    /\ \E i \in 1..NumTargets :
          reply' = [kind |-> "runUptimeCheck", response |-> reply.response,
                    result |-> UptimeResult(ConfigTargets[i], reply.response)]
    /\ UNCHANGED <<clock, reports, run, job, auditHistory, backend, emailEnabled, faultsLeft, mayFire, dynamicData, sessions>>

\* engine.js lines 83-86 and 180-183
CallOpportunities ==
    /\ reply.kind = "scores"
    /\ reply' = [kind |-> "opportunities", scores |-> reply.scores, options |-> reply.options,
                 opportunities |-> Opportunities(reply.scores, reply.options)]
    /\ UNCHANGED <<clock, reports, run, job, auditHistory, backend, emailEnabled, faultsLeft, mayFire, dynamicData, sessions>>

InitPure ==
    /\ clock = 1
    /\ reports = <<>>
    /\ run = [s \in Slots |-> IdleRun]
    /\ job = [c \in Triggers |-> IdleJob]
    /\ auditHistory = <<>>
    /\ backend = "browser"
    /\ emailEnabled = FALSE
    /\ faultsLeft = 0
    /\ mayFire = {}
    /\ dynamicData = NoDynamicData
    /\ sessions = NoSessions
    /\ reply \in {[kind |-> "response", response |-> r] : r \in SampleResponses}
                \cup {[kind |-> "scores", scores |-> sc,
                        options |-> [outputFormat |-> "html", thresholds |-> th]] :
                         sc \in SampleScores, th \in SampleThresholds}

NextPure ==
    \/ CallCheckUptime
    \/ CallUptimeResult
    \/ CallOpportunities

SpecPure == InitPure /\ [][NextPure]_vars

(***************************************************************************)
(* The round trip alone: one artifact written as runAudit writes it, for   *)
(* sample output formats and uptime results, then read by getAllAuditData  *)
(***************************************************************************)
MaxText == 2

\* the characters of error.message of a failed uptime probe
TextChars == {"fetch failed", Quote, NewLine, MarkerClose, LineSeparator}

SampleTexts == UNION {[1..n -> TextChars] : n \in 1..MaxText}

SampleUptimes ==
    {checkUptime(404)} \cup {[checkUptime(0) EXCEPT !.error = text] : text \in SampleTexts}

\* config.audit with the output formats of Lighthouse, or with none
SampleOptions ==
    {[outputFormat |-> format, thresholds |-> AuditOptions.thresholds] : format \in {"html", "json"}}
    \cup {[thresholds |-> AuditOptions.thresholds]}

\* engine.js lines 88-103: the stats are built and the artifact is written
WriteReport ==
    /\ reply.kind = "audited"
    /\ LET stats == Stats(reply.target, clock, reply.scores, reply.uptime, reply.options)
           file == FileName(reply.target, clock, reply.options)
       IN  /\ reports' = [f \in DOMAIN reports \cup {file} |->
                             IF f = file THEN Artifact(stats) ELSE reports[f]]
           /\ reply' = [kind |-> "written", stats |-> stats, file |-> file]
    /\ UNCHANGED <<clock, run, job, auditHistory, backend, emailEnabled, faultsLeft, mayFire, dynamicData, sessions>>

\* getAllAuditData as a call: JSON.parse is not guarded, so a marker whose group is
\* no JSON text makes the call throw
AllAuditData(dir) ==
    IF \E f \in DOMAIN dir :
          f[3] = "html" /\ HasMarker(dir[f]) /\ Metadata(dir[f]) = SyntaxError
    THEN Throw("SyntaxError")
    ELSE Return(getAllAuditData(dir))

\* dashboard.js line 1637, 1964: a request reads all the audit data
ReadAll ==
    /\ reply.kind = "written"
    /\ reply' = [kind |-> "allData", stats |-> reply.stats, file |-> reply.file,
                 completion |-> AllAuditData(reports)]
    /\ UNCHANGED <<clock, reports, run, job, auditHistory, backend, emailEnabled, faultsLeft, mayFire, dynamicData, sessions>>

InitRoundTrip ==
    /\ clock = 1
    /\ reports = <<>>
    /\ run = [s \in Slots |-> IdleRun]
    /\ job = [c \in Triggers |-> IdleJob]
    /\ auditHistory = <<>>
    /\ backend = "browser"
    /\ emailEnabled = FALSE
    /\ faultsLeft = 0
    /\ mayFire = {}
    /\ dynamicData = NoDynamicData
    /\ sessions = NoSessions
    /\ reply \in {[kind |-> "audited", target |-> ConfigTargets[i], options |-> options,
                     scores |-> CHOOSE sc \in LighthouseScores : TRUE, uptime |-> uptime] :
                      i \in 1..NumTargets, options \in SampleOptions, uptime \in SampleUptimes}

NextRoundTrip ==
    \/ WriteReport
    \/ ReadAll

SpecRoundTrip == InitRoundTrip /\ [][NextRoundTrip]_vars

(***************************************************************************)
(* The report requests alone: artifacts are persisted in any order of      *)
(* their timestamps and a report, download or analysis request of a target *)
(* reads the directory                                                     *)
(***************************************************************************)
MaxReportStamp == 3

ReportFiles == {FileName(t, ts, AuditOptions) : t \in SampleTargets, ts \in 1..MaxReportStamp}

\* engine.js lines 98-103: an audit that took its timestamp earlier writes its artifact
PersistReport ==
    /\ \E file \in ReportFiles \ DOMAIN reports :
          reports' = [f \in DOMAIN reports \cup {file} |->
                         IF f = file THEN SampleArtifact(file) ELSE reports[f]]
    /\ UNCHANGED <<clock, run, job, auditHistory, backend, emailEnabled, faultsLeft, mayFire, reply, dynamicData, sessions>>

\* dashboard.js lines 1816-1824 (the same at 1848-1856 and 1877-1885): the data of
\* the target, its first record and the rest
ReportData(dir, targetId) ==
    LET allData == getAllAuditData(dir)
        targetData == SelectSeq(allData, LAMBDA d : d.targetId = targetId)
    IN  IF Len(targetData) = 0
        THEN [status |-> 404]
        ELSE [status |-> 200, latestAudit |-> targetData[1],
              historicalData |-> SubSeq(targetData, 2, Len(targetData))]

\* GET /api/report/:targetId, lines 1807-1837: the target is looked up among all the
\* targets, then the audit data is read; files is what readdirSync listed
ReportRequest ==
    /\ \E target \in SampleTargets :
          LET data == ReportData(reports, target.id)
              analysis == analyzeMetrics(data.latestAudit.scores, data.historicalData)
          IN  reply' = IF data.status = 404
                       THEN [kind |-> "report", targetId |-> target.id,
                             files |-> DOMAIN reports, data |-> data]
                       ELSE [kind |-> "report", targetId |-> target.id,
                             files |-> DOMAIN reports, data |-> data,
                             analysis |-> analysis,
                             recommendations |->
                                 generateRecommendations(data.latestAudit.scores,
                                                         data.latestAudit.opportunities,
                                                         analysis)]
    /\ UNCHANGED <<clock, reports, run, job, auditHistory, backend, emailEnabled, faultsLeft, mayFire, dynamicData, sessions>>

InitReport ==
    /\ clock = 1
    /\ reports = <<>>
    /\ run = [s \in Slots |-> IdleRun]
    /\ job = [c \in Triggers |-> IdleJob]
    /\ auditHistory = <<>>
    /\ backend = "browser"
    /\ emailEnabled = FALSE
    /\ faultsLeft = 0
    /\ mayFire = {}
    /\ dynamicData = NoDynamicData
    /\ sessions = NoSessions
    /\ reply = [kind |-> "none"]

NextReport ==
    \/ PersistReport
    \/ ReportRequest

SpecReport == InitReport /\ [][NextReport]_vars

(***************************************************************************)
(* The analyzer alone: analyzeMetrics called on sample scores and          *)
(* histories, and called again later with the same arguments               *)
(***************************************************************************)
MaxHistory == 6

MetricKeys == {MetricOrder[i] : i \in 1..Len(MetricOrder)}

\* one metric with every whole score
SingleScores == UNION {[{key} -> 0..100] : key \in MetricKeys}

\* any of the metrics left out, and a key that is no metric
MixedScores ==
    UNION {[keys -> {0, 50, 100}] : keys \in SUBSET MetricKeys}
    \cup {[performance |-> 100, pwa |-> 0]}

\* the weighted sum and the total weight of lines 169-170
WeightedScore(scores) ==
    LET keys == MetricEntries(scores)
    IN  SumSeq([i \in 1..Len(keys) |-> scores[keys[i]] * MetricThresholds[keys[i]].weight])

TotalWeight(scores) ==
    LET keys == MetricEntries(scores)
    IN  SumSeq([i \in 1..Len(keys) |-> MetricThresholds[keys[i]].weight])

\* a quotient halfway between two whole numbers: there the rounding errors of the
\* doubles of lines 169-170 and 264 decide which of the two Math.round returns
Halfway(scores) ==
    /\ TotalWeight(scores) # 0
    /\ (2 * WeightedScore(scores)) % (2 * TotalWeight(scores)) = TotalWeight(scores)

\* the records of a history: audits of the metric, or audits without it
HistoryRecords ==
    {[scores |-> [performance |-> h]] : h \in {50, 60}} \cup {[scores |-> [seo |-> 50]]}

SampleHistories == UNION {[1..n -> HistoryRecords] : n \in 0..MaxHistory}

TrendScores == {[performance |-> c] : c \in {47, 48, 50, 52, 53, 60}}

AnalyzerInputs ==
    {[scores |-> sc, historicalData |-> <<>>] :
        sc \in {x \in SingleScores \cup MixedScores : ~Halfway(x)}}
    \cup {[scores |-> sc, historicalData |-> h] : sc \in TrendScores, h \in SampleHistories}

\* lines 1827, 1857, 1886: analyzeMetrics is called and returns
CallAnalyzeMetrics ==
    /\ reply.kind = "analyze"
    /\ reply' = [kind |-> "analysis", scores |-> reply.scores,
                 historicalData |-> reply.historicalData,
                 analysis |-> analyzeMetrics(reply.scores, reply.historicalData)]
    /\ UNCHANGED <<clock, reports, run, job, auditHistory, backend, emailEnabled, faultsLeft, mayFire, dynamicData, sessions>>

\* a later request calls analyzeMetrics with the same arguments
CallAnalyzeMetricsAgain ==
    /\ reply.kind = "analysis"
    /\ reply' = [kind |-> "analysisAgain", scores |-> reply.scores,
                 historicalData |-> reply.historicalData,
                 first |-> reply.analysis,
                 analysis |-> analyzeMetrics(reply.scores, reply.historicalData)]
    /\ UNCHANGED <<clock, reports, run, job, auditHistory, backend, emailEnabled, faultsLeft, mayFire, dynamicData, sessions>>

InitAnalysis ==
    /\ clock = 1
    /\ reports = <<>>
    /\ run = [s \in Slots |-> IdleRun]
    /\ job = [c \in Triggers |-> IdleJob]
    /\ auditHistory = <<>>
    /\ backend = "browser"
    /\ emailEnabled = FALSE
    /\ faultsLeft = 0
    /\ mayFire = {}
    /\ dynamicData = NoDynamicData
    /\ sessions = NoSessions
    /\ \E input \in AnalyzerInputs :
          reply = [kind |-> "analyze", scores |-> input.scores,
                   historicalData |-> input.historicalData]

NextAnalysis ==
    \/ CallAnalyzeMetrics
    \/ Tick
    \/ CallAnalyzeMetricsAgain

SpecAnalysis == InitAnalysis /\ [][NextAnalysis]_vars

(***************************************************************************)
(* The recommendation generator alone: the analysis and the                *)
(* recommendations of sample scores and opportunity labels, as the report  *)
(* routes compute them                                                     *)
(***************************************************************************)
\* the labels the audits derive, in the order of engine.js lines 84-86
DerivedLabels == <<"Speed Optimization Service", "Accessibility Remediation", "SEO Audit & Fix">>

\* the opportunities of a stored record: any of the derived labels, and lists with
\* the other labels of the catalog, a label without a value, a label twice
SampleOpportunities ==
    { SelectSeq(DerivedLabels, LAMBDA opp : opp \in kept) :
        kept \in SUBSET {DerivedLabels[i] : i \in 1..Len(DerivedLabels)} }
    \cup { <<"Security Hardening">>,
           <<"Mobile Optimization", "Hosting Migration/Stability Upgrade">>,
           <<"Content Refresh", "Accessibility Remediation">>,
           <<"SEO Audit & Fix", "Security Hardening", "SEO Audit & Fix">> }

RecommendScoreValues == {40, 65, 72, 85, 95}

\* the scores of an audit in which one metric takes every whole score
SweepScores ==
    {[k \in MetricKeys |-> IF k = key THEN v ELSE 95] : key \in MetricKeys, v \in 0..100}

RecommendInputs ==
    {[scores |-> sc, opportunities |-> opps] :
        sc \in [MetricKeys -> RecommendScoreValues], opps \in SampleOpportunities}
    \cup {[scores |-> sc, opportunities |-> Opportunities(sc, AuditOptions)] : sc \in SweepScores}

\* lines 1827-1830 (the same at 1857-1858 and 1886-1887)
CallGenerateRecommendations ==
    /\ reply.kind = "recommend"
    /\ LET analysis == analyzeMetrics(reply.scores, <<>>)
       IN  reply' = [kind |-> "recommendations", scores |-> reply.scores,
                     opportunities |-> reply.opportunities,
                     analysis |-> analysis,
                     recommendations |->
                         generateRecommendations(reply.scores, reply.opportunities, analysis)]
    /\ UNCHANGED <<clock, reports, run, job, auditHistory, backend, emailEnabled, faultsLeft, mayFire, dynamicData, sessions>>

InitRecommend ==
    /\ clock = 1
    /\ reports = <<>>
    /\ run = [s \in Slots |-> IdleRun]
    /\ job = [c \in Triggers |-> IdleJob]
    /\ auditHistory = <<>>
    /\ backend = "browser"
    /\ emailEnabled = FALSE
    /\ faultsLeft = 0
    /\ mayFire = {}
    /\ dynamicData = NoDynamicData
    /\ sessions = NoSessions
    /\ \E input \in RecommendInputs :
          reply = [kind |-> "recommend", scores |-> input.scores,
                   opportunities |-> input.opportunities]

NextRecommend == CallGenerateRecommendations

SpecRecommend == InitRecommend /\ [][NextRecommend]_vars

(***************************************************************************)
(* One invocation alone: runAudit called once, every external call it      *)
(* awaits answering or failing                                             *)
(***************************************************************************)
MaxRunFaults == 3

\* the invocation of the on-demand route, lines 1660-1663 of dashboard.js
TheRun == <<"ondemand", 1>>

InitRunAudit ==
    /\ clock = 1
    /\ reports = <<>>
    /\ run = [s \in Slots |-> IF s = TheRun THEN StartRun(ConfigTargets[1]) ELSE IdleRun]
    /\ job = [c \in Triggers |-> IdleJob]
    /\ auditHistory = <<>>
    /\ backend \in {"browser", "hosted"}
    /\ emailEnabled = FALSE
    /\ faultsLeft = MaxRunFaults
    /\ mayFire = {}
    /\ dynamicData = NoDynamicData
    /\ sessions = NoSessions
    /\ reply = [kind |-> "none"]

NextRunAudit ==
    \/ RunStep
    \/ Tick

\* every promise runAudit awaits is settled: a step of the invocation that can be
\* taken is taken
SpecRunAudit == InitRunAudit /\ [][NextRunAudit]_vars /\ WF_vars(RunStep)

(***************************************************************************)
(* The sites alone: add and remove requests in any order, the initial      *)
(* audit of an added site summarised by its outcome                        *)
(***************************************************************************)
SiteBodies ==
    [url : SampleUrls, clientName : SampleClientNames, runAudit : BOOLEAN]

\* the ids a remove request names: those of the static targets, those the sample
\* urls lead to, and one of no site
SampleSiteIds ==
    {ConfigTargets[i].id : i \in 1..NumTargets}
        \cup {SiteId(ParsedUrls[i].hostname) : i \in 1..Len(ParsedUrls)}
        \cup {"nosuchsite"}

InitSites ==
    /\ clock = 1
    /\ reports = <<>>
    /\ run = [s \in Slots |-> IdleRun]
    /\ job = [c \in Triggers |-> IdleJob]
    /\ auditHistory = <<>>
    /\ backend = "browser"
    /\ emailEnabled = FALSE
    /\ faultsLeft = 0
    /\ mayFire = {}
    /\ dynamicData = NoDynamicData
    /\ sessions = NoSessions
    /\ reply = [kind |-> "none"]

NextSites ==
    \/ \E body \in SiteBodies : AddSite(body)
    \/ RunOutcome(SiteRun)
    \/ AddSiteAnswer
    \/ \E siteId \in SampleSiteIds : RemoveSite(siteId)

SpecSites == InitSites /\ [][NextSites]_vars

(***************************************************************************)
(* The sessions alone: logins, logouts and requests in any order           *)
(***************************************************************************)
SampleUsernames == {"admin", "viewer", "guest"}
SamplePasswords == {"maintenance123", "view123", "letmein"}

InitAuth ==
    /\ clock = 1
    /\ reports = <<>>
    /\ run = [s \in Slots |-> IdleRun]
    /\ job = [c \in Triggers |-> IdleJob]
    /\ auditHistory = <<>>
    /\ backend = "browser"
    /\ emailEnabled = FALSE
    /\ faultsLeft = 0
    /\ mayFire = {}
    /\ dynamicData = NoDynamicData
    /\ sessions = NoSessions
    /\ reply = [kind |-> "none"]

NextAuth ==
    \/ \E username \in SampleUsernames, password \in SamplePasswords, sessionId \in SessionIds :
          Login(username, password, sessionId)
    \/ \E cookie \in CookieValues : Logout(cookie)
    \/ \E cookie \in CookieValues, p \in SamplePaths : authMiddleware(cookie, p)

SpecAuth == InitAuth /\ [][NextAuth]_vars

(***************************************************************************)
(* The alerts alone: uptime checks and full audits with alerting switched  *)
(* on or off, the cron timer of the uptime check firing again, runAudit    *)
(* reduced to its outcome                                                  *)
(***************************************************************************)
MaxFirings == 2

\* part_002 line 147: node-cron calls runUptimeCheck again at the next match of the
\* schedule expression
CronRearm ==
    /\ ~job["uptime"].active
    /\ "uptime" \notin mayFire
    /\ job["uptime"].firing >= 1
    /\ job["uptime"].firing < MaxFirings
    /\ mayFire' = mayFire \cup {"uptime"}
    /\ UNCHANGED <<clock, reports, run, job, auditHistory, backend, emailEnabled, faultsLeft, reply, dynamicData, sessions>>

InitAlerts ==
    /\ clock = 1
    /\ reports = <<>>
    /\ run = [s \in Slots |-> IdleRun]
    /\ job = [c \in Triggers |-> IdleJob]
    /\ auditHistory = <<>>
    /\ backend = "browser"
    /\ emailEnabled \in BOOLEAN
    /\ faultsLeft = 0
    /\ mayFire \in {{"uptime"}, {"weekly"}, {"weekly", "monthly"}}
    /\ dynamicData = NoDynamicData
    /\ sessions = NoSessions
    /\ reply = [kind |-> "none"]

NextAlerts ==
    \/ FireUptimeCheck
    \/ UptimeResume
    \/ CronRearm
    \/ \E c \in FullAuditTriggers : FireSweep(c)
    \/ \E s \in Slots : RunOutcome(s)
    \/ \E c \in FullAuditTriggers : FullAuditResume(c)
    \/ \E c \in FullAuditTriggers \cup {"uptime"} : MailAnswered(c)

SpecAlerts == InitAlerts /\ [][NextAlerts]_vars

(***************************************************************************)
(* Properties                                                              *)
(***************************************************************************)
InFlight(s) == run[s].pc \notin {"idle", "done"}

Returned(s) == run[s].pc = "done" /\ run[s].completion.kind = "return"

Positions(events, e) == {i \in 1..Len(events) : events[i] = e}

\* C1: when a runAudit of the browser backend returns after a failed first attempt
\* and a second attempt that did not fail, the result has success = true, the 2 s
\* delay was awaited exactly once, and it lies between the two launches; when it
\* returns after two failed attempts, the result has success = false and carries
\* the message of the second failure.
C1_RetryOutcome ==
    \A s \in Slots :
        (backend = "browser" /\ Returned(s) /\ run[s].attempts = 2) =>
            LET r == run[s]
                result == r.completion.value
                launches == Positions(r.events, "launch")
                delays == Positions(r.events, "delay")
            IN  /\ Len(r.errors) = 1 =>
                     /\ result.success = TRUE
                     /\ Cardinality(delays) = 1
                     /\ Cardinality(launches) = 2
                     /\ \A d \in delays : \E i, k \in launches : i < d /\ d < k
                /\ Len(r.errors) = 2 =>
                     /\ result.success = FALSE
                     /\ result.error = r.errors[2]

\* a runAudit has returned success on its second attempt
C1_Witness ==
    \E s \in Slots :
        /\ backend = "browser" /\ Returned(s)
        /\ run[s].attempts = 2 /\ Len(run[s].errors) = 1
        /\ run[s].completion.value.success = TRUE

\* C2: whenever a runAudit has ended, and whenever an attempt is about to launch a
\* browser, every Chrome process the invocation launched has been killed and every
\* browser session it connected has been disconnected.
C2_ReleasedOnEveryExit ==
    \A s \in Slots :
        run[s].pc \in {"done", "launch"} => run[s].liveProcs = 0 /\ run[s].liveConns = 0

\* C3: a runAudit that has ended has returned, never thrown, and what it returned
\* is a success result or exactly {success: false, target, error}, never undefined.
C3_NeverRaises ==
    \A s \in Slots :
        run[s].pc = "done" =>
            /\ run[s].completion.kind = "return"
            /\ run[s].completion.value # Undefined
            /\ \/ run[s].completion.value.success = TRUE
               \/ /\ DOMAIN run[s].completion.value = {"success", "target", "error"}
                  /\ run[s].completion.value.target = run[s].target.name

\* C4 as claimed: no two runAudit invocations are in flight against the same
\* target id.
C4_NoConcurrentAuditsOfTarget ==
    \A s, t \in Slots :
        (s # t /\ InFlight(s) /\ InFlight(t)) => run[s].target.id # run[t].target.id

\* C4 as amended: one firing of a trigger has at most one runAudit invocation that
\* has been called and not yet received by its loop, so one firing never audits a
\* target id twice at once.
C4_OneAuditPerFiring ==
    \A c \in Triggers :
        Cardinality({i \in 1..NumTargets : run[<<c, i>>].pc # "idle"}) <= 1

\* a sweep is auditing its second target while an on-demand audit of the same
\* target is in flight
C4_Witness ==
    \E c \in FullAuditTriggers \cup {"cli"} :
        /\ job[c].idx = 2
        /\ InFlight(<<c, 2>>)
        /\ InFlight(<<"ondemand", 2>>)

RECURSIVE OpenProcsUpTo(_, _)
OpenProcsUpTo(c, n) ==
    IF n = 0 THEN 0 ELSE run[<<c, n>>].liveProcs + OpenProcsUpTo(c, n - 1)

RECURSIVE OpenConnsUpTo(_, _)
OpenConnsUpTo(c, n) ==
    IF n = 0 THEN 0 ELSE run[<<c, n>>].liveConns + OpenConnsUpTo(c, n - 1)

\* the Chrome processes and browser sessions the firing of c has open
OpenProcs(c) == job[c].leakedProcs + OpenProcsUpTo(c, NumTargets)
OpenConns(c) == job[c].leakedConns + OpenConnsUpTo(c, NumTargets)

\* the sequencing half of C5: a multi-target job works on the target at its loop
\* index only, and has one result for each target before it, in configuration order
C5_Sequential ==
    \A c \in FullAuditTriggers \cup {"cli", "uptime"} :
        /\ \A i \in 1..NumTargets : run[<<c, i>>].pc # "idle" => job[c].active /\ i = job[c].idx
        /\ job[c].active => Len(job[c].results) = job[c].idx - 1
        /\ \A k \in 1..Len(job[c].results) :
              IF c = "uptime"
              THEN job[c].results[k].name = ConfigTargets[k].name
              ELSE job[c].results[k].target = ConfigTargets[k].name

\* C5: within one firing the targets are processed one at a time in configuration
\* order, and the firing never has more than one browser open.
C5_SequentialOneSession ==
    /\ C5_Sequential
    /\ \A c \in Triggers : OpenProcs(c) <= 1 /\ OpenConns(c) <= 1

\* C6: no two artifacts of the report directory carry the same targetId and the
\* same timestamp, so the records of a target are totally ordered by timestamp.
C6_TimestampsDistinct ==
    \A f, g \in DOMAIN reports :
        (f # g /\ HasMarker(reports[f]) /\ HasMarker(reports[g])
           /\ Metadata(reports[f]).targetId = Metadata(reports[g]).targetId)
        => Metadata(reports[f]).timestamp # Metadata(reports[g]).timestamp

\* two invocations of different triggers have audited the same target with the
\* same timestamp, and both have written their artifact
C6_Witness ==
    \E s, t \in Slots :
        /\ s[1] # t[1]
        /\ run[s].wrote # <<>> /\ run[t].wrote # <<>>
        /\ run[s].wrote[1].targetId = run[t].wrote[1].targetId
        /\ run[s].wrote[1].timestamp = run[t].wrote[1].timestamp

\* C7: no step changes or removes an artifact that carries an AuditResult.
C7_AppendOnly ==
    [][\A f \in DOMAIN reports :
          HasMarker(reports[f]) => f \in DOMAIN reports' /\ reports'[f] = reports[f]]_vars

Stored(dir) ==
    {Metadata(dir[f]) : f \in {g \in DOMAIN dir : g[3] = "html" /\ HasMarker(dir[g])}}

LatestPerTargetOf(body, stored, ids) ==
    /\ \A id \in ids : Cardinality({i \in 1..Len(body) : body[i].targetId = id}) = 1
    /\ \A i \in 1..Len(body) :
          /\ body[i].targetId \in {r.targetId : r \in stored}
          /\ \A r \in stored :
                r.targetId = body[i].targetId => body[i].timestamp >= r.timestamp

\* C9: getLatestReports returns exactly one record for each targetId of the report
\* directory and none for another id, and that record's timestamp is at least
\* that of every record of the same targetId.
C9_LatestPerTarget ==
    reply.kind = "latest" =>
        LatestPerTargetOf(reply.body, Stored(reports), {r.targetId : r \in Stored(reports)})

\* what holds of getLatestReports: the same, for the ids that are not the name of
\* a member of Object.prototype
C9_LatestPerOwnTarget ==
    reply.kind = "latest" =>
        LatestPerTargetOf(reply.body, Stored(reports),
                          {r.targetId : r \in Stored(reports)} \ InheritedKeys)

\* C10: the audit history holds at most 100 entries of each target.
C10_HistoryCapped ==
    \A i \in 1..NumTargets :
        Len(TargetHistory(auditHistory, ConfigTargets[i].id)) <= HistoryCap

\* the weekly and the monthly firing have both pushed onto a full history: a target
\* is at the cap and the entry of the first firing is gone
C10_Witness ==
    /\ job["weekly"].results # <<>> /\ job["monthly"].results # <<>>
    /\ \E i \in 1..NumTargets :
          LET mine == TargetHistory(auditHistory, ConfigTargets[i].id)
          IN  Len(mine) = HistoryCap /\ mine[1].timestamp > 1

\* the sites a painpoints alert has to list for these results: every result with a
\* non-empty opportunity list, in the order of the results
RECURSIVE PainPointsOf(_)
PainPointsOf(results) ==
    IF results = <<>> THEN <<>>
    ELSE LET r == Head(results)
         IN  (IF "opportunities" \in DOMAIN r /\ r.opportunities # <<>>
              THEN <<[target |-> r.target, opportunities |-> r.opportunities]>>
              ELSE <<>>) \o PainPointsOf(Tail(results))

\* C11: a full-audit firing hands at most one painpoints alert to the notifier, and
\* only once it has a result for every target; with alerting enabled it has handed
\* over exactly one, after the loop, if and only if some audit of the firing returned
\* a non-empty opportunity list, and the alert lists every such target with its
\* opportunities; with alerting disabled it hands over none.
C11_OneBatchedAlert ==
    \A c \in FullAuditTriggers :
        LET j == job[c]
        IN  /\ Len(j.alerts) <= 1
            /\ j.alerts # <<>> =>
                 /\ emailEnabled
                 /\ j.status \in {"mail", "returned"}
                 /\ Len(j.results) >= NumTargets
                 /\ j.alerts[1] = [type |-> "painpoints",
                                   details |-> PainPointsOf(j.results), at |-> NumTargets]
            /\ (emailEnabled /\ j.status \in {"mail", "returned"}) =>
                 (Len(j.alerts) = 1 <=> PainPointsOf(j.results) # <<>>)

\* a firing has returned after an alert that lists both targets
C11_Witness ==
    \E c \in FullAuditTriggers :
        /\ job[c].status = "returned"
        /\ Len(job[c].alerts) = 1
        /\ Len(job[c].alerts[1].details) = NumTargets

\* C12: with alerting enabled, the alerts an uptime-check firing has handed to the
\* notifier are exactly one downtime alert for each result so far that is DOWN,
\* naming its target and handed over while the loop was still at that target; a
\* result is DOWN exactly for a 5xx answer or a network exception; the firing
\* returns one result per target, in configuration order.
C12_DowntimeAlertPerDownTarget ==
    LET j == job["uptime"]
        down == SelectSeq([k \in 1..Len(j.results) |-> k],
                          LAMBDA k : j.results[k].status = "DOWN")
    IN  /\ emailEnabled =>
             j.alerts = [n \in 1..Len(down) |->
                            [type |-> "downtime", target |-> ConfigTargets[down[n]].name,
                             at |-> down[n]]]
        /\ ~emailEnabled => j.alerts = <<>>
        /\ \A k \in 1..Len(j.results) :
              /\ j.results[k].targetId = ConfigTargets[k].id
              /\ j.results[k].status = "DOWN" <=>
                    ("error" \in DOMAIN j.results[k] \/ j.results[k].statusCode >= 500)
        /\ j.active => Len(j.results) \in {j.idx - 1, j.idx}
        /\ j.status = "returned" => Len(j.results) = NumTargets

\* an uptime check has returned with the first target UP, the second DOWN and one
\* alert
C12_Witness ==
    /\ emailEnabled
    /\ job["uptime"].status = "returned"
    /\ job["uptime"].results[1].status = "UP"
    /\ job["uptime"].results[2].status = "DOWN"
    /\ Len(job["uptime"].alerts) = 1

\* C13: an uptime-check firing hands over a downtime alert only for a target that
\* was not DOWN in the firing before it.
C13_AlertOnFlipOnly ==
    LET j == job["uptime"]
    IN  j.firing >= 2 =>
            \A n \in 1..Len(j.alerts) : j.before[j.alerts[n].at].status # "DOWN"

\* C14: a step in which runFullAudit receives a result with success = false leaves
\* the audit history and the firing's pain points as they were.
C14_FailureLeavesNoData ==
    [][\A c \in FullAuditTriggers :
          ( /\ MayResume(c)
            /\ run[<<c, job[c].idx>>].completion.kind = "return"
            /\ "success" \in DOMAIN run[<<c, job[c].idx>>].completion.value
            /\ run[<<c, job[c].idx>>].completion.value.success = FALSE
            /\ job'[c] # job[c] )
          => /\ auditHistory' = auditHistory
             /\ job'[c].newPainPoints = job[c].newPainPoints]_vars

C16_UptimeEmbedded ==
    \A s \in Slots :
        (Returned(s) /\ run[s].completion.value # Undefined) =>
            /\ "uptime" \in DOMAIN run[s].completion.value
            /\ run[s].completion.value.uptime = run[s].uptime

\* C17: an invocation of runAudit probes exactly once, before anything else it
\* does, and not again in a retry; the probe's answer is kept as it was classified,
\* DOWN when the request failed.
C17_ProbeOnce ==
    \A s \in Slots :
        LET r == run[s]
        IN  /\ r.pc \in {"idle", "probe"} => Positions(r.events, "probe") = {}
            /\ r.pc \notin {"idle", "probe"} =>
                  /\ Positions(r.events, "probe") = {1}
                  /\ r.uptime.status \in {"UP", "DOWN"}
                  /\ "error" \in DOMAIN r.uptime => r.uptime.status = "DOWN"

\* a runAudit whose probe failed is about to launch the browser of its second
\* attempt
C17_Witness ==
    \E s \in Slots :
        /\ run[s].pc = "launch" /\ run[s].attempts = 2
        /\ run[s].events = <<"probe", "launch", "delay">>
        /\ "error" \in DOMAIN run[s].uptime

\* C19: the prober returns a value for every answer; a received response is UP
\* exactly when it is http-ok or its status is below 500, so 404 is UP and 503 is
\* DOWN; a network exception is DOWN with the error populated; the scheduler's
\* uptime check gives every answer the same status.
C19_UptimeClassification ==
    /\ reply.kind = "checkUptime" =>
         LET r == reply.response
             u == reply.uptime
         IN  /\ u.status \in {"UP", "DOWN"}
             /\ r # 0 => /\ u.status = "UP" <=> ((r >= 200 /\ r <= 299) \/ r < 500)
                         /\ u.statusCode = r
             /\ r = 404 => u.status = "UP"
             /\ r = 503 => u.status = "DOWN"
             /\ r = 0 => u.status = "DOWN" /\ "error" \in DOMAIN u
    /\ reply.kind = "runUptimeCheck" =>
         reply.result.status = checkUptime(reply.response).status

\* the prober has classified a 404 and the uptime check a network exception
C19_Witness ==
    \/ reply.kind = "checkUptime" /\ reply.response = 404
    \/ reply.kind = "runUptimeCheck" /\ reply.response = 0 /\ reply.result.status = "DOWN"

\* the threshold a metric is configured with, 90 when none is configured
ConfiguredThreshold(thresholds, x) ==
    IF x \in DOMAIN thresholds THEN thresholds[x] ELSE 90

\* the labels of the metrics below their threshold, in the fixed order
ExpectedOpportunities(scores, thresholds, configured(_, _)) ==
    (IF scores.performance < configured(thresholds, "performance")
        THEN <<"Speed Optimization Service">> ELSE <<>>)
    \o (IF scores.accessibility < configured(thresholds, "accessibility")
        THEN <<"Accessibility Remediation">> ELSE <<>>)
    \o (IF scores.seo < configured(thresholds, "seo")
        THEN <<"SEO Audit & Fix">> ELSE <<>>)

\* C20: the opportunities are exactly the labels, in the order performance,
\* accessibility, seo, of the metrics whose score is strictly below their configured
\* threshold, 90 when none is configured.
C20_OpportunitiesExact ==
    reply.kind = "opportunities" =>
        reply.opportunities =
            ExpectedOpportunities(reply.scores, reply.options.thresholds, ConfiguredThreshold)

\* what holds of the opportunities: the same, when no threshold is configured as 0
C20_OpportunitiesExactNonZero ==
    (reply.kind = "opportunities"
       /\ \A x \in DOMAIN reply.options.thresholds : reply.options.thresholds[x] # 0)
    => reply.opportunities =
            ExpectedOpportunities(reply.scores, reply.options.thresholds, ConfiguredThreshold)

\* the record getAllAuditData has to return for an artifact
ReadBack(stats, file) ==
    [k \in DOMAIN stats \cup {"filename"} |-> IF k = "filename" THEN file ELSE stats[k]]

\* C18: an artifact runAudit has written holds exactly one metadata marker, and
\* getAllAuditData returns for it one record, equal to the stats that were written.
C18_RoundTrip ==
    reply.kind = "allData" =>
        /\ Cardinality({i \in 1..Len(reports[reply.file]) :
                           reports[reply.file][i] = Lit(MarkerOpen)}) = 1
        /\ reply.completion = Return(<<ReadBack(reply.stats, reply.file)>>)

\* what holds of the round trip: the same, for the output format html and an
\* uptime error text without the character U+2028
C18_RoundTripHtmlOneLine ==
    (reply.kind = "allData" /\ reply.file[3] = "html"
       /\ ("error" \in DOMAIN reply.stats.uptime =>
              \A i \in 1..Len(reply.stats.uptime.error) :
                 reply.stats.uptime.error[i] # LineSeparator))
    => /\ Cardinality({i \in 1..Len(reports[reply.file]) :
                          reports[reply.file][i] = Lit(MarkerOpen)}) = 1
       /\ reply.completion = Return(<<ReadBack(reply.stats, reply.file)>>)

(***************************************************************************)
(* The report requests                                                     *)
(***************************************************************************)
\* a record as getAllAuditData returns it, without the file name it adds
AsStored(d) ==
    [ targetId |-> d.targetId, clientId |-> d.clientId, timestamp |-> d.timestamp,
      scores |-> d.scores, uptime |-> d.uptime, opportunities |-> d.opportunities,
      screenshot |-> d.screenshot ]

\* the request answered from the records the directory holds now: the current
\* record is the record of the target with the greatest timestamp, the history is
\* exactly the other records of the target, most recent first
FreshFromStore(r, dir) ==
    LET mine == {s \in Stored(dir) : s.targetId = r.targetId}
    IN  IF mine = {} THEN r.data.status = 404
        ELSE /\ r.data.status = 200
             /\ AsStored(r.data.latestAudit) \in mine
             /\ \A s \in mine : s.timestamp <= r.data.latestAudit.timestamp
             /\ {AsStored(r.data.historicalData[i]) : i \in 1..Len(r.data.historicalData)}
                    = mine \ {AsStored(r.data.latestAudit)}
             /\ Len(r.data.historicalData) = Cardinality(mine) - 1
             /\ \A i \in 1..(Len(r.data.historicalData) - 1) :
                    r.data.historicalData[i].timestamp > r.data.historicalData[i + 1].timestamp

\* C21: a report request of target T, answered right after any sequence of appends,
\* analyzes as current the record of T with the greatest timestamp in the store,
\* which is the record getLatestReports returns for T, and passes as history
\* exactly the other records of T, most recent first.
C21_AnalyzesLatest ==
    (reply.kind = "report" /\ reply.files = DOMAIN reports) =>
        /\ FreshFromStore(reply, reports)
        /\ reply.data.status = 200 =>
              \E i \in 1..Len(getLatestReports(reports)) :
                  getLatestReports(reports)[i] = reply.data.latestAudit

\* what holds of the report requests: the same without getLatestReports
C21_FreshFromStore ==
    (reply.kind = "report" /\ reply.files = DOMAIN reports) => FreshFromStore(reply, reports)

\* C22: two AuditResults of the same target enter the report directory in the
\* order of their timestamps: no artifact is persisted while the directory holds
\* an artifact of the same target with a later timestamp.
C22_PersistedInTimestampOrder ==
    [][\A f \in DOMAIN reports' \ DOMAIN reports :
          \A g \in DOMAIN reports : g[1] = f[1] => g[2] < f[2]]_vars

(***************************************************************************)
(* The analyzer                                                            *)
(***************************************************************************)
Analyzed == reply.kind \in {"analysis", "analysisAgain"}

\* C23: the overall score is the sum of score x weight over the metrics present
\* divided by the sum of the weights of the metrics present, a metric that is
\* absent counting in neither; {performance: 100, accessibility: 0, seo: 0,
\* bestPractices: 0} yields 35.
C23_OverallScoreIsQuotient ==
    (Analyzed /\ TotalWeight(reply.scores) # 0) =>
        /\ reply.analysis.overallScore * TotalWeight(reply.scores) = WeightedScore(reply.scores)
        /\ reply.scores = [performance |-> 100, accessibility |-> 0, seo |-> 0, bestPractices |-> 0]
              => reply.analysis.overallScore = 35

\* C23 as the code has it: the overall score is the whole number nearest to that
\* quotient (not more than one half away from it), NaN when no metric is present;
\* the example yields 35.
C23_OverallScoreIsRoundedQuotient ==
    Analyzed =>
        LET overallScore == reply.analysis.overallScore
            totalWeight == TotalWeight(reply.scores)
            weightedScore == WeightedScore(reply.scores)
        IN  /\ totalWeight = 0 => overallScore = NaN
            /\ totalWeight # 0 =>
                  /\ overallScore \in 0..100
                  /\ 2 * (overallScore * totalWeight - weightedScore) <= totalWeight
                  /\ 2 * (weightedScore - overallScore * totalWeight) <= totalWeight
            /\ reply.scores = [performance |-> 100, accessibility |-> 0, seo |-> 0, bestPractices |-> 0]
                  => overallScore = 35

\* metrics are absent, and the quotient is no whole number
C23_Witness ==
    /\ Analyzed
    /\ DOMAIN reply.scores = {"performance", "seo"}
    /\ reply.analysis.overallScore * TotalWeight(reply.scores) # WeightedScore(reply.scores)
    /\ reply.analysis.overallScore = 58

\* C24: a performance score of exactly 50 is given the status critical, and every
\* performance score above 50 a status other than critical.
C24_FiftyIsCritical ==
    (Analyzed /\ "performance" \in DOMAIN reply.scores) =>
        /\ reply.scores.performance = 50 => reply.analysis.metrics.performance.status = "critical"
        /\ reply.scores.performance > 50 => reply.analysis.metrics.performance.status # "critical"

\* C24 as the code has it: a performance score is critical exactly when it is
\* below 50; a score of exactly 50 is given the status warning.
C24_BelowFiftyIsCritical ==
    (Analyzed /\ "performance" \in DOMAIN reply.scores) =>
        /\ reply.scores.performance < 50 <=> reply.analysis.metrics.performance.status = "critical"
        /\ reply.scores.performance = 50 => reply.analysis.metrics.performance.status = "warning"

C24_Witness ==
    /\ Analyzed
    /\ reply.scores = [performance |-> 50]
    /\ reply.analysis.metrics.performance.status = "warning"
    /\ reply.analysis.overall = "warning"

\* C25: for every metric and every score, the status is critical when the score
\* is below the metric's critical threshold, warning when it is from the critical
\* threshold up to below the warning threshold, and good only when the score is
\* at least the metric's good threshold.
C25_StatusByThresholds ==
    Analyzed =>
        \A key \in DOMAIN reply.analysis.metrics :
            LET t == MetricThresholds[key]
                score == reply.scores[key]
                status == reply.analysis.metrics[key].status
            IN  /\ score < t.critical => status = "critical"
                /\ (t.critical <= score /\ score < t.warning) => status = "warning"
                /\ status = "good" => score >= t.good

\* the ladder of the grades
GradeRank(grade) ==
    CASE grade = "F" -> 0 [] grade = "D" -> 1 [] grade = "C" -> 2
      [] grade = "B" -> 3 [] grade = "A" -> 4 [] grade = "A+" -> 5

\* C26: for each metric and any two scores A > B in 0..100 the grade given to A is
\* not worse than the grade given to B on the ladder F < D < C < B < A < A+, and
\* the same holds for the overall grade as a function of the overall score.
C26_GradeMonotone ==
    Analyzed =>
        /\ \A key \in DOMAIN reply.analysis.metrics :
              \A B \in 0..100 :
                  B < reply.scores[key] =>
                      GradeRank(MetricGrade(MetricThresholds[key], B))
                          <= GradeRank(reply.analysis.metrics[key].grade)
        /\ \A B \in 0..100 :
              (reply.analysis.overallScore # NaN /\ B < reply.analysis.overallScore) =>
                  GradeRank(OverallGrade(B)) <= GradeRank(reply.analysis.overallGrade)

\* a score at the step from D to C
C26_Witness ==
    /\ Analyzed
    /\ reply.scores = [bestPractices |-> 60]
    /\ reply.analysis.metrics.bestPractices.grade = "C"
    /\ MetricGrade(MetricThresholds.bestPractices, 59) = "D"
    /\ reply.analysis.overallGrade = "D"

\* the trend of the statement: the difference between the current value and the
\* mean of the historical values among the five most recent records, as soon as
\* there is one such value
TrendOfMean(key, value, historicalData) ==
    LET recentScores == RecentScores(key, historicalData)
        n == Len(recentScores)
        delta == value * n - SumSeq(recentScores)
    IN  IF delta > 2 * n THEN "improving"
        ELSE IF delta < (-2) * n THEN "declining"
        ELSE "stable"

\* C27: for every non-empty history, the trend of a metric compares the current
\* value with the mean of the (up to) 5 most recent historical values of the
\* metric: improving above +2, declining below -2, stable otherwise, whenever
\* there is at least one historical value, a history of one record included.
C27_TrendFromMean ==
    Analyzed =>
        \A key \in DOMAIN reply.analysis.metrics :
            Len(RecentScores(key, reply.historicalData)) >= 1 =>
                reply.analysis.metrics[key].trend
                    = TrendOfMean(key, reply.scores[key], reply.historicalData)

\* what holds of the trend: the same from two historical values on, and stable
\* with fewer
C27_TrendFromMeanOfTwo ==
    Analyzed =>
        \A key \in DOMAIN reply.analysis.metrics :
            reply.analysis.metrics[key].trend =
                IF Len(RecentScores(key, reply.historicalData)) >= 2
                THEN TrendOfMean(key, reply.scores[key], reply.historicalData)
                ELSE "stable"

Recommended == reply.kind = "recommendations"

Emitted(id) ==
    \E i \in 1..Len(reply.recommendations.recommendations) :
        reply.recommendations.recommendations[i].id = id

\* the recommendations of each metric: of the critical tier and of the warning
\* tier where the code has two, the one recommendation where it has one
CriticalTier == [performance |-> "perf-critical", accessibility |-> "a11y-critical"]
WarningTier == [performance |-> "perf-warning", accessibility |-> "a11y-warning"]
SingleTier == [seo |-> "seo-high", bestPractices |-> "bp-medium"]

\* C29: for every metric and score, generateRecommendations emits the critical
\* tier recommendation of the metric exactly when analyzeMetrics classifies the
\* score critical, the warning tier one exactly when it classifies it warning,
\* and none when it classifies it good.
C29_TiersMirrorAnalyzer ==
    Recommended =>
        \A key \in DOMAIN reply.analysis.metrics :
            LET status == reply.analysis.metrics[key].status
            IN  /\ key \in DOMAIN CriticalTier =>
                      /\ Emitted(CriticalTier[key]) <=> status = "critical"
                      /\ Emitted(WarningTier[key]) <=> status = "warning"
                /\ key \in DOMAIN SingleTier =>
                      (Emitted(SingleTier[key]) <=> status # "good")

\* what holds of the tiers: those of performance mirror the analyzer's thresholds
C29_PerformanceTiersMirrorAnalyzer ==
    (Recommended /\ "performance" \in DOMAIN reply.analysis.metrics) =>
        /\ Emitted("perf-critical") <=> reply.analysis.metrics.performance.status = "critical"
        /\ Emitted("perf-warning") <=> reply.analysis.metrics.performance.status = "warning"

PriorityRanks == [critical |-> 0, high |-> 1, medium |-> 2, low |-> 3]

PositionOf(recommendations, id) ==
    CHOOSE i \in 1..Len(recommendations) : recommendations[i].id = id

\* C30: the list returned is ordered by the rank of the priorities critical <
\* high < medium < low, the recommendations derived from opportunity labels
\* included, and recommendations of equal rank keep the order in which they were
\* generated.
C30_SortedByPriorityStable ==
    Recommended =>
        LET sorted == reply.recommendations.recommendations
            generated == GeneratedRecommendations(reply.scores, reply.opportunities)
        IN  /\ Len(sorted) = Len(generated)
            /\ \A i \in 1..Len(generated) : \E j \in 1..Len(sorted) : sorted[j] = generated[i]
            /\ \A i \in 1..(Len(sorted) - 1) :
                  PriorityRanks[sorted[i].priority] <= PriorityRanks[sorted[i + 1].priority]
            /\ \A i, j \in 1..Len(generated) :
                  (i < j /\ generated[i].priority = generated[j].priority) =>
                      PositionOf(sorted, generated[i].id) < PositionOf(sorted, generated[j].id)

\* a recommendation derived from a label is moved in front of recommendations of
\* the metrics, and two of equal rank keep their order
C30_Witness ==
    /\ Recommended
    /\ Len(reply.recommendations.recommendations) >= 4
    /\ reply.recommendations.recommendations[1].id = "opp-security-hardening"
    /\ reply.recommendations.recommendations[2].id = "perf-warning"
    /\ reply.recommendations.recommendations[3].id = "a11y-critical"
    /\ GeneratedRecommendations(reply.scores, reply.opportunities)[1].id = "perf-warning"

PackageNamed(name) ==
    LET packages == reply.recommendations.packages
    IN  packages[CHOOSE i \in 1..Len(packages) : packages[i].name = name]

HasPackage(name) ==
    \E i \in 1..Len(reply.recommendations.packages) :
        reply.recommendations.packages[i].name = name

IdSet(package) == {package.recommendations[i] : i \in 1..Len(package.recommendations)}

Within(package, next) ==
    /\ IdSet(package) \subseteq IdSet(next)
    /\ package.cost.min <= next.cost.min
    /\ package.cost.max <= next.cost.max

\* C31: the packages are cumulative for every input: the ids of Emergency Fix,
\* when present, are among those of Foundation Package, those of Foundation
\* Package, when present, among those of Complete Optimization, and the cost range of
\* each package is no larger than that of the next.
C31_PackagesCumulative ==
    Recommended =>
        /\ HasPackage("Complete Optimization")
        /\ HasPackage("Emergency Fix") =>
              /\ HasPackage("Foundation Package")
              /\ Within(PackageNamed("Emergency Fix"), PackageNamed("Foundation Package"))
        /\ HasPackage("Foundation Package") =>
              Within(PackageNamed("Foundation Package"), PackageNamed("Complete Optimization"))

\* the three packages, each strictly larger than the one before
C31_Witness ==
    /\ Recommended
    /\ HasPackage("Emergency Fix")
    /\ IdSet(PackageNamed("Emergency Fix")) = {"perf-critical", "opp-security-hardening"}
    /\ IdSet(PackageNamed("Foundation Package")) # IdSet(PackageNamed("Emergency Fix"))
    /\ IdSet(PackageNamed("Complete Optimization")) # IdSet(PackageNamed("Foundation Package"))
    /\ PackageNamed("Emergency Fix").cost = [min |-> 2700, max |-> 8500]

(***************************************************************************)
(* The two backends of runAudit                                            *)
(***************************************************************************)
\* what an invocation that has returned a result owes to the contract: a success
\* has the fields of an AuditResult, the opportunities of its scores, and its
\* record is in the report directory; a failure comes after maxAttempts attempts
KeepsContract(s) ==
    LET result == run[s].completion.value
    IN  IF result.success
        THEN /\ DOMAIN result = { "success", "target", "targetId", "clientId", "timestamp",
                                  "scores", "uptime", "opportunities", "screenshot" }
             /\ result.opportunities = Opportunities(result.scores, AuditOptions)
             /\ \E r \in Stored(reports) :
                    r.targetId = result.targetId /\ r.timestamp = result.timestamp
        ELSE Len(run[s].errors) = maxAttempts

\* C32: the browser backend and the hosted backend are interchangeable: both
\* return a result with the same fields and the same opportunities for the same
\* scores, both make up to 2 attempts on failure, and both leave the report
\* directory with a record of the audit after a success.
C32_BackendsInterchangeable ==
    \A s \in Slots :
        (Returned(s) /\ run[s].completion.value # Undefined) => KeepsContract(s)

\* what holds: the same of the browser backend alone
C32_BrowserKeepsContract ==
    \A s \in Slots :
        (backend = "browser" /\ Returned(s) /\ run[s].completion.value # Undefined) =>
            KeepsContract(s)

(***************************************************************************)
(* Termination                                                             *)
(***************************************************************************)
\* C33: every runAudit invocation terminates when each external call returns or
\* fails; it makes at most 2 attempts and launches at most 2 browsers, waits the
\* backoff at most once and only after a failed attempt that is not the last,
\* and starts no attempt after one that has succeeded.
C33_Terminates ==
    /\ [](\A s \in Slots :
             LET r == run[s]
             IN  /\ r.attempts <= maxAttempts
                 /\ Cardinality(Positions(r.events, "launch")) <= maxAttempts
                 /\ Cardinality(Positions(r.events, "delay")) <= 1
                 /\ r.pc = "delay" => (r.attempts < maxAttempts /\ Len(r.errors) = r.attempts)
                 /\ \A w \in Positions(r.events, "write") :
                        \A l \in Positions(r.events, "launch") : l < w)
    /\ \A s \in Slots : (run[s].pc # "idle") ~> (run[s].pc = "done")

\* the invocation has ended after two attempts, the backoff between them
C33_Witness ==
    /\ run[TheRun].pc = "done"
    /\ run[TheRun].attempts = 2
    /\ Len(run[TheRun].errors) = 2
    /\ run[TheRun].events = <<"probe", "launch", "delay", "launch">>

\* the firings that sweep the configured targets: runFullAudit and runAllAudits
SweepTriggers == FullAuditTriggers \cup {"cli"}

\* the firing of c is over, however it ended
Ended(c) == ~job[c].active /\ job[c].status # ""

\* C34: every full-audit firing runs to completion whatever audits fail: it has
\* invoked runAudit once for each configured target, and it returns exactly one
\* result per target, in configuration order.
C34_OneResultPerTarget ==
    \A c \in SweepTriggers :
        Ended(c) =>
            /\ job[c].status = "returned"
            /\ job[c].idx = NumTargets
            /\ Len(job[c].results) = NumTargets
            /\ \A i \in 1..NumTargets :
                   /\ job[c].results[i] # Undefined
                   /\ job[c].results[i].target = ConfigTargets[i].name

\* the same for the scheduler's runFullAudit alone, which catches what runAudit throws
C34_FullAuditOneResultPerTarget ==
    \A c \in FullAuditTriggers :
        Ended(c) =>
            /\ job[c].status = "returned"
            /\ job[c].idx = NumTargets
            /\ Len(job[c].results) = NumTargets
            /\ \A i \in 1..NumTargets :
                   /\ job[c].results[i] # Undefined
                   /\ job[c].results[i].target = ConfigTargets[i].name

(***************************************************************************)
(* The eviction from the audit history                                     *)
(***************************************************************************)
\* the entries of the targets other than id, in the order of the history
OthersHistory(history, id) == SelectSeq(history, LAMBDA h : h.targetId # id)

\* C35: when appending to the audit history takes a target over its cap of 100,
\* exactly one entry is evicted, the oldest entry of that target, and the entries
\* of every other target and their order are unchanged.
C35_EvictsOldestOfSameTarget ==
    [][ auditHistory' # auditHistory =>
          LET entry == auditHistory'[Len(auditHistory')]
              id == entry.targetId
              mine == TargetHistory(auditHistory, id)
          IN  Len(mine) = HistoryCap =>
                  /\ Len(auditHistory') = Len(auditHistory)
                  /\ TargetHistory(auditHistory', id) = Tail(mine) \o <<entry>>
                  /\ \A k \in 1..(HistoryCap - 1) : mine[1].timestamp <= mine[k + 1].timestamp
                  /\ OthersHistory(auditHistory', id) = OthersHistory(auditHistory, id)
      ]_vars

\* a firing has pushed onto the full history of one target and not yet onto that
\* of another: the first has lost its oldest entry, the second has all of its own
C35_Witness ==
    \E i, j \in 1..NumTargets :
        LET mine == TargetHistory(auditHistory, ConfigTargets[i].id)
            other == TargetHistory(auditHistory, ConfigTargets[j].id)
        IN  /\ i # j
            /\ Len(mine) = HistoryCap /\ Len(other) = HistoryCap
            /\ mine[1].timestamp = 2 /\ mine[HistoryCap].timestamp = HistoryCap + 1
            /\ other[1].timestamp = 1

(***************************************************************************)
(* The target list                                                         *)
(***************************************************************************)
\* C36: after any sequence of add and remove requests no two targets of the merged
\* list share an id or a url and every static target is still in it; a rejected
\* add or remove leaves the overlay unchanged.
C36_TargetsDistinct ==
    /\ [](/\ \A i, j \in 1..Len(getAllTargets) :
                i # j => /\ getAllTargets[i].id # getAllTargets[j].id
                         /\ getAllTargets[i].url # getAllTargets[j].url
          /\ \A i \in 1..NumTargets :
                \E j \in 1..Len(getAllTargets) : getAllTargets[j] = ConfigTargets[i])
    /\ [][ (/\ reply' # reply
            /\ reply'.kind \in {"sites/add", "sites/remove"}
            /\ reply'.status # 200) => dynamicData' = dynamicData ]_vars

\* two sites are in the overlay, one has gone again, and the last request, an add
\* of a site that is there, was rejected
C36_Witness ==
    /\ Len(dynamicData.targets) = 2
    /\ Len(dynamicData.clients) = 2
    /\ dynamicData.targets[1].id = "www_acmecare_io"
    /\ reply.kind = "sites/add" /\ reply.status = 400
    /\ reply.error = "Site already exists"

(***************************************************************************)
(* The sessions                                                            *)
(***************************************************************************)
\* a login has just been answered with a session
LoggedIn == reply.kind = "login" /\ reply.status = 200

\* C37: a login creates a session for a configured user only when the submitted
\* password is that user's own: no session with role admin comes from the viewer's
\* password; after logout the session id authenticates no request.
C37_OwnPasswordOnly ==
    /\ [](LoggedIn =>
            /\ FindUser(reply.username) # 0
            /\ reply.password = AuthUsers[FindUser(reply.username)].password
            /\ AuthUsers[FindUser(reply.username)].role = "admin" => reply.password # "view123")
    /\ [][ reply'.kind = "logout" => reply'.cookie \notin DOMAIN sessions' ]_vars
    /\ [](reply.kind = "request" =>
            (reply.user # Undefined <=> (reply.cookie # "" /\ reply.cookie \in DOMAIN sessions)))

\* what holds of the sessions: they are created for configured users, with the
\* user's role, from one of the two accepted passwords, and a logout removes the
\* session, whose id then authenticates nothing
C37_LogoutEndsSession ==
    /\ [](LoggedIn =>
            /\ FindUser(reply.username) # 0
            /\ reply.password \in {"maintenance123", "view123"})
    /\ [](\A k \in DOMAIN sessions :
            /\ FindUser(sessions[k].username) # 0
            /\ sessions[k].role = AuthUsers[FindUser(sessions[k].username)].role)
    /\ [][ reply'.kind = "logout" => reply'.cookie \notin DOMAIN sessions' ]_vars
    /\ [](reply.kind = "request" =>
            (reply.user # Undefined <=> (reply.cookie # "" /\ reply.cookie \in DOMAIN sessions)))

====
